---------------------------- MODULE Spec2Model ----------------------------
(***************************************************************************)
(* Command-log undo/redo engine, session persistence and share links of    *)
(* the annotation content script (src/unnamed/part_001, the variant that   *)
(* starts at line 2496).                                                   *)
(*                                                                         *)
(* Data representation                                                     *)
(*   point            [x, y]                                               *)
(*   Annotation       a record; the optional members end / path /          *)
(*                    shapeMode are present or absent as in the object     *)
(*                    literal that creates it                              *)
(*   TextAnnotation   [id, x, y, text, color]                              *)
(*   Command          a record with a type member; a member of a           *)
(*                    moveAnnotation command that may hold the value       *)
(*                    undefined is a sequence: << >> is undefined and      *)
(*                    <<v>> is the value v                                 *)
(*   identifiers      `text-${Date.now()}` is the clock reading,           *)
(*                    `ann-${Date.now()}-${Math.random()}` is a number     *)
(*                    never drawn before                                   *)
(***************************************************************************)
EXTENDS Integers, Sequences, FiniteSets, TLC

VARIABLES
    annotations,      \* const annotations: Annotation[]
    textAnnotations,  \* const textAnnotations: TextAnnotation[]
    undoStack,        \* let undoStack: Command[]
    redoStack,        \* let redoStack: Command[]
    isActive,         \* let isActive
    toolState,        \* activeTool, selectedColor, penWidth, lastUsedShape, shapeMode
    isDrawing,        \* let isDrawing
    startPoint,       \* let startPoint (<< >> is null)
    currentPath,      \* let currentPath
    mouse,            \* let mouse
    dragging,         \* draggingAnnotation / draggingText / moveStartPos / moveStart*
    editing,          \* the focused text input and its lastTextValue
    now,              \* the last reading of Date.now()
    rnd,              \* how many Math.random() identifiers were drawn
    stored,           \* localStorage entry under getStorageKey()
    hash,             \* the annoted= parameter of window.location.hash
    fragment,         \* the other parameters of window.location.hash
    share,            \* the last result of generateShareUrl
    lastOp,           \* the handler that produced this state and what it did
    uncaught,         \* an exception left the last handler
    fails,            \* how many localStorage.setItem calls have thrown
    page,             \* the document: its size, the window's scroll position,
                      \* the inline visibility of its elements
    cap,              \* the full-page capture the content script is running
    bridge,           \* the background script: the message it handles, its
                      \* full-page capture, what it answered
    app,              \* the AnnotationOverlay component of content.tsx: its
                      \* active tool, drawingHistory and historyIndex, the
                      \* messages it sent
    localStorage,     \* the entries of the origin's localStorage by key, the
                      \* saves made so far and what the last load returned
    pointerDown,      \* the last pointer-down of the eraser or the move tool:
                      \* the stores it found, the position, what it selected
    cap2,             \* a second captureFullPageInternal the listener of the
                      \* content script runs at the same time
    requests          \* the background script with several tabs: for every
                      \* tab the promise, listener and timer of its
                      \* captureFullPage(tabId) and what its content script
                      \* is doing

editorVars == <<annotations, textAnnotations, undoStack, redoStack, isActive,
                toolState, isDrawing, startPoint, currentPath, mouse, dragging,
                editing, now, rnd, stored, hash, fragment, share, lastOp,
                uncaught, fails>>

captureVars == <<page, cap, bridge>>

otherVars == <<app, localStorage, pointerDown, cap2, requests>>

vars == <<editorVars, captureVars, otherVars>>

---------------------------------------------------------------------------
(* Bounds of the model *)

\* longest committed stack the handlers are allowed to build
MaxLog == 3
\* longest pen / highlighter path recorded by handleMouseMove
MaxPath == 2
\* largest reading of Date.now()
MaxClock == 2
\* number of Math.random() identifiers
MaxRnd == 2
\* number of handlers during which localStorage.setItem throws
MaxFail == 1

---------------------------------------------------------------------------
(* Sequence helpers *)

Last(s) == s[Len(s)]

Front(s) == SubSeq(s, 1, Len(s) - 1)

\* Array.prototype.splice(index, 1) with a 1-based index; an index past the
\* end removes nothing
Splice1(s, i) ==
    IF i >= 1 /\ i <= Len(s)
    THEN SubSeq(s, 1, i - 1) \o SubSeq(s, i + 1, Len(s))
    ELSE s

\* Array.prototype.findIndex(el => el.id === id), 1-based; 0 is "not found" (-1)
FindIndexById(s, id) ==
    IF \E i \in 1..Len(s) : s[i].id = id
    THEN CHOOSE i \in 1..Len(s) :
            /\ s[i].id = id
            /\ \A j \in 1..(i - 1) : s[j].id # id
    ELSE 0

Has(r, f) == f \in DOMAIN r

\* truthiness of an optional member that may hold undefined
Truthy(r, f) == Has(r, f) /\ r[f] # << >>

---------------------------------------------------------------------------
(* JSON.parse(JSON.stringify(v)) *)

MayBeUndefined == {"oldEnd", "oldPath", "newEnd", "newPath"}

\* JSON.stringify leaves out a member whose value is undefined; every other
\* member of a command (finite numbers, strings, nested objects, arrays) comes
\* back from JSON.parse with the value it had
JsonClone(cmd) ==
    [f \in {g \in DOMAIN cmd : g \notin MayBeUndefined \/ cmd[g] # << >>}
        |-> cmd[f]]

JsonCloneSeq(cmds) == [i \in 1..Len(cmds) |-> JsonClone(cmds[i])]

---------------------------------------------------------------------------
(* Stores *)

EmptyStores == [annotations |-> << >>, textAnnotations |-> << >>]

IsAddAnnotation(cmd) == cmd.type \in {"addPen", "addHighlighter", "addShape"}

\* text.text = cmd.newText on textAnnotations.find(t => t.id === cmd.id)
SetTextOf(texts, id, newText) ==
    LET i == FindIndexById(texts, id)
    IN  IF i = 0 THEN texts ELSE [texts EXCEPT ![i].text = newText]

\* text.x = cmd.newPos.x; text.y = cmd.newPos.y
SetPosOf(texts, id, newPos) ==
    LET i == FindIndexById(texts, id)
    IN  IF i = 0 THEN texts
        ELSE [texts EXCEPT ![i].x = newPos.x, ![i].y = newPos.y]

\* the moveAnnotation branch: annotations[cmd.index] (0-based in the code,
\* kept 0-based in the command) gets newStart and, when truthy, newEnd / newPath
MoveAnnotationAt(anns, cmd) ==
    LET i == cmd.index + 1
    IN  IF i < 1 \/ i > Len(anns) THEN anns
        ELSE LET a0 == anns[i]
                 a1 == [f \in (DOMAIN a0) \cup {"start"} |->
                            IF f = "start" THEN cmd.newStart ELSE a0[f]]
                 a2 == IF Truthy(cmd, "newEnd")
                       THEN [f \in (DOMAIN a1) \cup {"end"} |->
                                IF f = "end" THEN cmd.newEnd[1] ELSE a1[f]]
                       ELSE a1
                 a3 == IF Truthy(cmd, "newPath")
                       THEN [f \in (DOMAIN a2) \cup {"path"} |->
                                IF f = "path" THEN cmd.newPath[1] ELSE a2[f]]
                       ELSE a2
             IN  [anns EXCEPT ![i] = a3]

\* the "delete" branch: deletedAnnotation decides which store is searched
DeleteByTarget(st, cmd) ==
    IF Has(cmd, "deletedAnnotation")
    THEN [st EXCEPT !.annotations =
            Splice1(@, FindIndexById(@, cmd.targetId))]
    ELSE IF Has(cmd, "deletedText")
    THEN [st EXCEPT !.textAnnotations =
            Splice1(@, FindIndexById(@, cmd.targetId))]
    ELSE st

\* the if / else-if chain of replayCommands' forEach body
ReplayStep(st, cmd) ==
    IF IsAddAnnotation(cmd)
    THEN [st EXCEPT !.annotations = Append(@, JsonClone(cmd.annotation))]
    ELSE IF cmd.type = "addText"
    THEN [st EXCEPT !.textAnnotations = Append(@, JsonClone(cmd.annotation))]
    ELSE IF cmd.type = "editText"
    THEN [st EXCEPT !.textAnnotations = SetTextOf(@, cmd.id, cmd.newText)]
    ELSE IF cmd.type = "moveAnnotation"
    THEN [st EXCEPT !.annotations = MoveAnnotationAt(@, cmd)]
    ELSE IF cmd.type = "moveText"
    THEN [st EXCEPT !.textAnnotations = SetPosOf(@, cmd.id, cmd.newPos)]
    ELSE IF cmd.type = "deleteText"
    THEN [st EXCEPT !.textAnnotations =
            Splice1(@, FindIndexById(@, cmd.annotation.id))]
    ELSE IF cmd.type = "delete"
    THEN DeleteByTarget(st, cmd)
    ELSE IF cmd.type = "clear_all"
    THEN EmptyStores
    ELSE st

RECURSIVE ReplayFrom(_, _)
ReplayFrom(st, cmds) ==
    IF cmds = << >> THEN st
    ELSE ReplayFrom(ReplayStep(st, Head(cmds)), Tail(cmds))

\* cmd names a target the stores st do not hold: an editText or moveText
\* whose id no text has, a delete whose targetId is not in the store it
\* searches, a moveAnnotation whose index is outside annotations
AbsentTarget(st, cmd) ==
    \/ /\ cmd.type \in {"editText", "moveText"}
       /\ FindIndexById(st.textAnnotations, cmd.id) = 0
    \/ /\ cmd.type = "delete" /\ Has(cmd, "deletedAnnotation")
       /\ FindIndexById(st.annotations, cmd.targetId) = 0
    \/ /\ cmd.type = "delete" /\ ~Has(cmd, "deletedAnnotation")
       /\ Has(cmd, "deletedText")
       /\ FindIndexById(st.textAnnotations, cmd.targetId) = 0
    \/ /\ cmd.type = "moveAnnotation"
       /\ cmd.index + 1 \notin 1..Len(st.annotations)

\* cmds without the commands that name an absent target when their turn
\* comes in a replay that starts from st
RECURSIVE WithoutAbsent(_, _)
WithoutAbsent(st, cmds) ==
    IF cmds = << >> THEN << >>
    ELSE IF AbsentTarget(st, Head(cmds))
    THEN WithoutAbsent(st, Tail(cmds))
    ELSE <<Head(cmds)>> \o WithoutAbsent(ReplayStep(st, Head(cmds)), Tail(cmds))

\* a replay that ends at the first command whose target is absent, as a
\* forEach whose callback throws there
RECURSIVE ReplayUntilAbsent(_, _)
ReplayUntilAbsent(st, cmds) ==
    IF cmds = << >> \/ AbsentTarget(st, Head(cmds)) THEN st
    ELSE ReplayUntilAbsent(ReplayStep(st, Head(cmds)), Tail(cmds))

replayCommandsMutStop(st, commands) == ReplayUntilAbsent(EmptyStores, commands)

\* replayCommands(commands): both stores are emptied, then every command is
\* applied in array order; st is the content of the stores at the call
replayCommands(st, commands) == ReplayFrom(EmptyStores, commands)

\* executeCommand's chain without its editText branch
ExecApplyMutNoEdit(st, cmd) ==
    IF cmd.type = "editText" THEN st ELSE ReplayStep(st, cmd)

\* the if / else-if chain at the head of executeCommand
ExecApply(st, cmd) ==
    IF IsAddAnnotation(cmd)
    THEN [st EXCEPT !.annotations = Append(@, JsonClone(cmd.annotation))]
    ELSE IF cmd.type = "addText"
    THEN [st EXCEPT !.textAnnotations = Append(@, JsonClone(cmd.annotation))]
    ELSE IF cmd.type = "editText"
    THEN [st EXCEPT !.textAnnotations = SetTextOf(@, cmd.id, cmd.newText)]
    ELSE IF cmd.type = "moveAnnotation"
    THEN [st EXCEPT !.annotations = MoveAnnotationAt(@, cmd)]
    ELSE IF cmd.type = "moveText"
    THEN [st EXCEPT !.textAnnotations = SetPosOf(@, cmd.id, cmd.newPos)]
    ELSE IF cmd.type = "deleteText"
    THEN [st EXCEPT !.textAnnotations =
            Splice1(@, FindIndexById(@, cmd.annotation.id))]
    ELSE IF cmd.type = "delete"
    THEN DeleteByTarget(st, cmd)
    ELSE IF cmd.type = "clear_all"
    THEN EmptyStores
    ELSE st

---------------------------------------------------------------------------
(* Page, tool state, session entry *)

\* an address: what precedes the first "?" or "#", and the rest
Url(base, rest) == [base |-> base, rest |-> rest]

\* url.split("#")[0].split("?")[0]
StripHashQuery(url) == [url EXCEPT !.rest = ""]

\* the normalized address of the page being annotated
PageUrl == Url("https://site/page", "")

\* the address of the same page with a query string, as the earlier variant's
\* saveSession stored it (url: window.location.href)
PageUrlWithQuery == Url("https://site/page", "?q=1")

\* the normalized address of another page
OtherUrl == Url("https://site/other", "")

NoTool == "null"

DefaultToolState ==
    [activeTool |-> NoTool, color |-> "red", penWidth |-> 4,
     shapeType |-> "rectangle", shapeFillMode |-> "outline"]

NoEntry == [kind |-> "none"]

\* JSON.stringify(session) as written by saveSession, seen through JSON.parse
SessionEntry(ts, actions) ==
    [kind |-> "session", version |-> 1, pageUrl |-> PageUrl,
     toolState |-> ts, actions |-> JsonCloneSeq(actions)]

---------------------------------------------------------------------------
(* The engine: the part of the state executeCommand / undo / redo work on *)

Eng ==
    [annotations |-> annotations, textAnnotations |-> textAnnotations,
     undoStack |-> undoStack, redoStack |-> redoStack,
     toolState |-> toolState, stored |-> stored, uncaught |-> FALSE]

StoresOf(e) ==
    [annotations |-> e.annotations, textAnnotations |-> e.textAnnotations]

WithStores(e, st) ==
    [e EXCEPT !.annotations = st.annotations,
              !.textAnnotations = st.textAnnotations]

\* saveSession whose catch block is missing: the storage error leaves it
saveSessionMutNoCatch(e, ok) ==
    IF ok
    THEN [e EXCEPT !.stored = SessionEntry(e.toolState, e.undoStack)]
    ELSE [e EXCEPT !.uncaught = TRUE]

\* saveSession writing the log without its newest command
saveSessionMutStale(e, ok) ==
    IF ok
    THEN [e EXCEPT !.stored = SessionEntry(e.toolState, Front(e.undoStack))]
    ELSE e

\* saveSession(): localStorage.setItem either stores the entry (ok) or throws
\* (quota); the throw is caught and logged
saveSession(e, ok) ==
    IF ok
    THEN [e EXCEPT !.stored = SessionEntry(e.toolState, e.undoStack)]
    ELSE e

\* executeCommand that keeps the redo stack
executeCommandMutKeepRedo(e, cmd, ok) ==
    LET e1 == WithStores(e, ExecApply(StoresOf(e), cmd))
        e2 == [e1 EXCEPT !.undoStack = Append(@, JsonClone(cmd))]
    IN  saveSession(e2, ok)

\* executeCommand(cmd): apply, push a deep copy, clear redo, save; redrawAll,
\* updateTextAnnotations and updateToolbar rebuild the view from the stores
executeCommand(e, cmd, ok) ==
    LET e1 == WithStores(e, ExecApply(StoresOf(e), cmd))
        e2 == [e1 EXCEPT !.undoStack = Append(@, JsonClone(cmd)),
                         !.redoStack = << >>]
    IN  saveSession(e2, ok)

\* undo that re-inserts what a deletion removed at the end of its store instead
\* of replaying the remaining commands
undoMutInverse(e, ok) ==
    IF Len(e.undoStack) = 0 THEN e
    ELSE LET cmd == Last(e.undoStack)
             e1 == [e EXCEPT !.undoStack = Front(@),
                             !.redoStack = Append(@, cmd)]
             st == IF cmd.type = "delete" /\ Has(cmd, "deletedAnnotation")
                   THEN [StoresOf(e) EXCEPT !.annotations =
                            Append(@, cmd.deletedAnnotation)]
                   ELSE IF cmd.type = "delete" /\ Has(cmd, "deletedText")
                   THEN [StoresOf(e) EXCEPT !.textAnnotations =
                            Append(@, cmd.deletedText)]
                   ELSE replayCommands(StoresOf(e1), e1.undoStack)
         IN  saveSession(WithStores(e1, st), ok)

\* undo whose guard is missing: with nothing to undo it still replays, which
\* empties the stores, and drops what could be redone
undoMutNoGuard(e, ok) ==
    IF Len(e.undoStack) = 0
    THEN saveSession([WithStores(e, EmptyStores) EXCEPT !.redoStack = << >>],
                     ok)
    ELSE LET cmd == Last(e.undoStack)
             e1 == [e EXCEPT !.undoStack = Front(@),
                             !.redoStack = Append(@, cmd)]
             st == replayCommands(StoresOf(e1), e1.undoStack)
         IN  saveSession(WithStores(e1, st), ok)

\* undo(): pop, push on redo, replay what remains, save
undo(e, ok) ==
    IF Len(e.undoStack) = 0 THEN e
    ELSE LET cmd == Last(e.undoStack)
             e1 == [e EXCEPT !.undoStack = Front(@),
                             !.redoStack = Append(@, cmd)]
             st == replayCommands(StoresOf(e1), e1.undoStack)
         IN  saveSession(WithStores(e1, st), ok)

\* redo that takes the oldest undone command
redoMutOldest(e, ok) ==
    IF Len(e.redoStack) = 0 THEN e
    ELSE LET cmd == Head(e.redoStack)
             e1 == [e EXCEPT !.redoStack = Tail(@),
                             !.undoStack = Append(@, cmd)]
             st == replayCommands(StoresOf(e1), e1.undoStack)
         IN  saveSession(WithStores(e1, st), ok)

\* redo(): pop from redo, push on undo, replay everything, save
redo(e, ok) ==
    IF Len(e.redoStack) = 0 THEN e
    ELSE LET cmd == Last(e.redoStack)
             e1 == [e EXCEPT !.redoStack = Front(@),
                             !.undoStack = Append(@, cmd)]
             st == replayCommands(StoresOf(e1), e1.undoStack)
         IN  saveSession(WithStores(e1, st), ok)

\* the engine's part of the next state
SetEng(e) ==
    /\ annotations' = e.annotations
    /\ textAnnotations' = e.textAnnotations
    /\ undoStack' = e.undoStack
    /\ redoStack' = e.redoStack
    /\ toolState' = e.toolState
    /\ stored' = e.stored
    /\ uncaught' = e.uncaught

---------------------------------------------------------------------------
(* Pointer positions, hit testing *)

\* e.pageX of the pointer events of the model; window.scrollX = scrollY = 0, so
\* clientX = pageX, and every text annotation has its input element
Xs == {0, 300}

Pt(x) == [x |-> x, y |-> 0]

MousePoints == {Pt(x) : x \in Xs}

\* getBoundingClientRect() of a text annotation's element: the input's
\* min-width 200px plus 8px padding and 2px border on both sides
TextRectWidth == 220
TextRectHeight == 37

NoHit == [kind |-> "none", i |-> 0]

\* dist < 20 to a point of the path (compared squared)
NearPath(path, p) ==
    \E k \in 1..Len(path) :
        (p.x - path[k].x) * (p.x - path[k].x)
            + (p.y - path[k].y) * (p.y - path[k].y) < 20 * 20

Min2(a, b) == IF a <= b THEN a ELSE b
Max2(a, b) == IF a >= b THEN a ELSE b

\* the bounding box of start / end, padded by 10
InBox(ann, p) ==
    /\ p.x >= Min2(ann.start.x, ann.end.x) - 10
    /\ p.x <= Max2(ann.start.x, ann.end.x) + 10
    /\ p.y >= Min2(ann.start.y, ann.end.y) - 10
    /\ p.y <= Max2(ann.start.y, ann.end.y) + 10

InTextRect(t, p) ==
    /\ p.x >= t.x /\ p.x <= t.x + TextRectWidth
    /\ p.y >= t.y /\ p.y <= t.y + TextRectHeight

\* one iteration of hitTestAnnotation's second loop
HitsAnnotation(ann, p) ==
    IF Has(ann, "path") /\ Len(ann.path) > 0 THEN NearPath(ann.path, p)
    ELSE IF Has(ann, "end") THEN InBox(ann, p)
    ELSE FALSE

MaxOf(S) == CHOOSE m \in S : \A n \in S : n <= m

\* hitTestAnnotation(x, y): texts first, each store from its last element down
hitTestAnnotation(texts, anns, p) ==
    LET ht == {i \in 1..Len(texts) : InTextRect(texts[i], p)}
        ha == {i \in 1..Len(anns) : HitsAnnotation(anns[i], p)}
    IN  IF ht # {} THEN [kind |-> "text", i |-> MaxOf(ht)]
        ELSE IF ha # {} THEN [kind |-> "annotation", i |-> MaxOf(ha)]
        ELSE NoHit

\* the move tool's own test of a text: the rectangle is that of
\* document.getElementById(text.id), the first element carrying the id
MoveHitsText(texts, i, p) ==
    LET el == texts[FindIndexById(texts, texts[i].id)]
    IN  /\ p.x >= el.x /\ p.x <= el.x + TextRectWidth
        /\ p.y >= el.y /\ p.y <= el.y + TextRectHeight

\* one iteration of the move tool's loop over the annotations
MoveHitsAnnotation(ann, p) ==
    IF Has(ann, "end") THEN InBox(ann, p)
    ELSE IF Has(ann, "path") /\ Len(ann.path) > 0 THEN NearPath(ann.path, p)
    ELSE FALSE

\* the move branch of handleMouseDown: texts from the last down, then the last
\* five annotations from the last down
moveHitTest(texts, anns, p) ==
    LET ht == {i \in 1..Len(texts) : MoveHitsText(texts, i, p)}
        ha == {i \in Max2(1, Len(anns) - 4)..Len(anns) :
                    MoveHitsAnnotation(anns[i], p)}
    IN  IF ht # {} THEN [kind |-> "text", i |-> MaxOf(ht)]
        ELSE IF ha # {} THEN [kind |-> "annotation", i |-> MaxOf(ha)]
        ELSE NoHit

---------------------------------------------------------------------------
(* The page a capture works on                                             *)
(*   lengths are in units of half a viewport                               *)
(*   page  [pageWidth, pageHeight, innerWidth, innerHeight, scroll, vis,   *)
(*          overlayDisplay, canvasDisplay, background, scrollbar]          *)
(*   vis   element -> its style.visibility                                 *)
(*   overlayDisplay, canvasDisplay   style.display of #annoted-overlay and *)
(*          of #canvas-draw                                                *)
(*   background, scrollbar   style.background of the document element and  *)
(*          its scrollbar-width, -ms-overflow-style and overflow, which    *)
(*          hideScrollbar and restoreScrollbar set together                *)

\* window.innerWidth, window.innerHeight
ViewW == 2
ViewH == 2

\* the largest scrollWidth / scrollHeight of a document
MaxPage == 5

\* the largest scrollHeight while two captures run in one tab
MaxOverlapPage == 3

\* a page header, a fixed side navigation, a navigation in the flow of the
\* page, the toolbar of the extension
Elements == {"header", "aside", "nav", "toolbar"}

\* what detectStickyFixedElements returns: computed position fixed or sticky
StickyFixed == {"header", "aside"}

\* what detectSidebars returns: aside, role=navigation, class or id "sidebar"
Sidebars == {"aside", "nav"}

\* what hideAnnotedUI hides
AnnotedUI == {"toolbar"}

Visibilities == {"", "visible", "hidden"}

Point(x, y) == [x |-> x, y |-> y]

DefaultPage ==
    [pageWidth |-> ViewW, pageHeight |-> ViewH,
     innerWidth |-> ViewW, innerHeight |-> ViewH,
     scroll |-> Point(0, 0),
     vis |-> [e \in Elements |-> ""],
     overlayDisplay |-> "", canvasDisplay |-> "",
     background |-> "", scrollbar |-> ""]

\* the inline styles of the overlay, the canvas and the document element
Styles(pg) ==
    [overlayDisplay |-> pg.overlayDisplay, canvasDisplay |-> pg.canvasDisplay,
     background |-> pg.background, scrollbar |-> pg.scrollbar]

\* hideScrollbar
hideScrollbar(pg) == [pg EXCEPT !.scrollbar = "none"]

\* waitForFirstCaptureSettling: detachOverlayForFirstCapture, then the white
\* background
waitForFirstCaptureSettling(pg) ==
    [pg EXCEPT !.overlayDisplay = "none", !.canvasDisplay = "none",
               !.background = "#ffffff"]

\* restoreOverlayAfterFirstCapture: a saved "" removes the property
restoreOverlayAfterFirstCapture(pg, original) ==
    [pg EXCEPT !.overlayDisplay = original.overlayDisplay,
               !.canvasDisplay = original.canvasDisplay]

\* restoreBackground: a saved "" removes the property
restoreBackground(pg, originalBackground) ==
    [pg EXCEPT !.background = originalBackground]

\* Math.ceil(a / b) of positive integers
Ceil(a, b) == (a + b - 1) \div b

Clamp(v, lo, hi) == IF v < lo THEN lo ELSE IF v > hi THEN hi ELSE v

\* window.scrollTo(x, y): the browser keeps the position inside the document
scrollTo(pg, x, y) ==
    [pg EXCEPT !.scroll =
        Point(Clamp(x, 0, Max2(0, pg.pageWidth - pg.innerWidth)),
              Clamp(y, 0, Max2(0, pg.pageHeight - pg.innerHeight)))]

\* hideStickyFixedElements / hideSidebars: the elements that are not hidden
\* yet, each with its inline visibility
hiddenBy(vis, els) ==
    {[element |-> e, originalVisibility |-> vis[e]] :
        e \in {d \in els : vis[d] # "hidden"}}

\* hideAnnotedUI: every element it finds, hidden already or not
hideAnnotedUI(vis) ==
    {[element |-> e, originalVisibility |-> vis[e]] : e \in AnnotedUI}

hide(vis, els) == [e \in Elements |-> IF e \in els THEN "hidden" ELSE vis[e]]

\* restoreElementsAfterCapture
restoreElementsAfterCapture(vis, hiddenElements) ==
    [e \in Elements |->
        IF \E r \in hiddenElements : r.element = e
        THEN (CHOOSE r \in hiddenElements : r.element = e).originalVisibility
        ELSE vis[e]]

\* no capture is running in the content script
NoCapture == [pc |-> "idle"]

\* the background script handles no message and runs no full-page capture
IdleBridge ==
    [pc |-> "idle", action |-> "none", hasTab |-> FALSE, did |-> {},
     answer |-> << >>, sent |-> FALSE, listener |-> FALSE, timer |-> "off",
     promise |-> "none", outcome |-> "none", requested |-> << >>,
     denied |-> FALSE, reported |-> << >>, answers |-> 0]

---------------------------------------------------------------------------
(* The AnnotationOverlay component of src/entrypoints/content.tsx          *)
(*   app.activeTool      "null" or the tool                                *)
(*   app.drawingHistory  the completed drawings                            *)
(*   app.historyIndex    << >> for null, <<n>> when n items are shown      *)
(*   app.saved           << >> or <<what saveToLocalStorage wrote>>        *)
(*   app.outbox          the messages to the background script that have   *)
(*                       no response yet                                   *)
(*   app.tick            flips at every keydown event                      *)
(*   app.textInput       << >> for null, or <<the position of the text     *)
(*                       input and the index it edits (<< >> for a new     *)
(*                       text)>>                                           *)
(*   app.rendered        the indexes of the text elements in the document: *)
(*                       those of the last render, which happens when a    *)
(*                       state of the component changes and not when       *)
(*                       drawingHistory or historyIndex do                 *)
(* Indexes into drawingHistory count from 1; historyIndex is the number    *)
(* the code holds.                                                         *)

\* longest drawingHistory
MaxHist == 2
\* most messages without a response
MaxOutbox == 1

ShapeTools == {"rectangle", "circle", "arrow"}

MountedApp ==
    [activeTool |-> "null", drawingHistory |-> << >>, historyIndex |-> << >>,
     saved |-> << >>, outbox |-> << >>, tick |-> 0, textInput |-> << >>,
     rendered |-> {}]

\* the length of historyIndex === null ? drawingHistory
\*                                    : drawingHistory.slice(0, historyIndex)
visibleCount(a) ==
    IF a.historyIndex = << >> THEN Len(a.drawingHistory)
    ELSE Min2(a.historyIndex[1], Len(a.drawingHistory))

\* the text elements a render returns: the shown items of type text that have
\* a text and are not being edited
TextElements(a) ==
    {i \in 1..visibleCount(a) :
        /\ a.drawingHistory[i].type = "text"
        /\ a.drawingHistory[i].text # ""
        /\ a.textInput = << >> \/ a.textInput[1].editingIndex # <<i>>}

\* the component renders again after a state setter got a new value
render(a) == [a EXCEPT !.rendered = TextElements(a)]

\* saveToLocalStorage: an exception of setItem is caught
saveToLocalStorage(a, ok) ==
    IF ok
    THEN [a EXCEPT !.saved = <<[drawingHistory |-> a.drawingHistory,
                               historyIndex |-> a.historyIndex]>>]
    ELSE a

handleUndo(a, ok) ==
    IF Len(a.drawingHistory) = 0 THEN a
    ELSE saveToLocalStorage(
             [a EXCEPT !.historyIndex =
                 IF @ = << >> THEN <<Len(a.drawingHistory) - 1>>
                 ELSE IF @[1] > 0 THEN <<@[1] - 1>>
                 ELSE @], ok)

handleRedo(a, ok) ==
    IF a.historyIndex # << >> /\ a.historyIndex[1] < Len(a.drawingHistory)
    THEN saveToLocalStorage(
             [a EXCEPT !.historyIndex =
                 IF @[1] + 1 = Len(a.drawingHistory) THEN << >>
                 ELSE <<@[1] + 1>>], ok)
    ELSE a

\* handleClearAll saves nothing
handleClearAll(a) ==
    [a EXCEPT !.drawingHistory = << >>, !.historyIndex = << >>]

\* handleScreenshot and handleDownload: chrome.runtime.sendMessage
sendMessage(a, action) == [a EXCEPT !.outbox = Append(@, action)]

\* setActiveTool(activeTool === t ? null : t)
toggleTool(a, t) ==
    render([a EXCEPT !.activeTool = IF @ = t THEN "null" ELSE t])

\* the targets of a keydown event and those the handler returns for
KeyTargets == {"body", "input", "textarea", "contenteditable"}
TextTargets == {"input", "textarea", "contenteditable"}

\* KeyboardEvent.key of the keys pressed: a letter key gives the upper-case
\* letter when Shift or Caps Lock makes it one
Keys == {"p", "h", "t", "m", "s", "z", "y", "x", "e", "c", "d", "a",
         "Z", "Y"}

toLowerCase(key) ==
    IF key = "Z" THEN "z" ELSE IF key = "Y" THEN "y" ELSE key

\* handleKeyDown; mod is e.ctrlKey || e.metaKey
handleKeyDown(a, target, key, mod, shiftKey, ok) ==
    LET k == toLowerCase(key)
    IN  IF target \in TextTargets THEN a
        ELSE IF mod
        THEN IF key = "z" /\ ~shiftKey THEN handleUndo(a, ok)
             ELSE IF key = "y" \/ (key = "z" /\ shiftKey)
             THEN handleRedo(a, ok)
             ELSE a
        ELSE IF k = "p" THEN toggleTool(a, "pen")
        ELSE IF k = "h" THEN toggleTool(a, "highlighter")
        ELSE IF k = "t" THEN toggleTool(a, "text")
        ELSE IF k = "m" THEN toggleTool(a, "move")
        ELSE IF k = "s"
        THEN render([a EXCEPT !.activeTool =
                        IF @ \in ShapeTools THEN "null" ELSE "rectangle"])
        ELSE IF k = "z" THEN handleUndo(a, ok)
        ELSE IF k = "y" THEN handleRedo(a, ok)
        ELSE IF k = "x" THEN handleClearAll(a)
        ELSE IF k = "e" THEN toggleTool(a, "eraser")
        ELSE IF k = "c" THEN sendMessage(a, "downloadScreenshot")
        ELSE IF k = "d" THEN sendMessage(a, "downloadFullPage")
        ELSE a

\* findAnnotationAtPoint(x, y): the last shown shape whose padded box holds
\* the point, 0 for -1; items of type text are skipped
findAnnotationAtPoint(a, p) ==
    LET hits == {i \in 1..visibleCount(a) :
                    /\ a.drawingHistory[i].type = "shape"
                    /\ InBox(a.drawingHistory[i], p)}
    IN  IF hits = {} THEN 0 ELSE MaxOf(hits)

\* drawingHistory.splice(index, 1); if (historyIndex !== null &&
\* historyIndex > index) historyIndex--; redrawAll(); saveToLocalStorage():
\* what the eraser does with the item at i
eraseAt(a, i, ok) ==
    saveToLocalStorage(
        [a EXCEPT !.drawingHistory = Splice1(@, i),
                  !.historyIndex = IF @ # << >> /\ @[1] > i - 1
                                   THEN <<@[1] - 1>> ELSE @], ok)

\* canRedo as a render computes it
canRedo(a) ==
    a.historyIndex # << >> /\ a.historyIndex[1] < Len(a.drawingHistory)

\* handleTextSubmit(text) with a text that is not blank
handleTextSubmit(a, text, ok) ==
    LET kept == IF a.historyIndex # << >>
                     /\ a.historyIndex[1] < Len(a.drawingHistory)
                THEN SubSeq(a.drawingHistory, 1, a.historyIndex[1])
                ELSE a.drawingHistory
        ti == a.textInput[1]
        dh == IF ti.editingIndex # << >>
              THEN IF ti.editingIndex[1] <= Len(kept)
                   THEN [kept EXCEPT ![ti.editingIndex[1]].text = text,
                                     ![ti.editingIndex[1]].start = Pt(ti.x)]
                   ELSE kept
              ELSE Append(kept, [type |-> "text", tool |-> "text",
                                 start |-> Pt(ti.x), text |-> text])
    IN  saveToLocalStorage(
            render([a EXCEPT !.drawingHistory = dh, !.historyIndex = << >>,
                             !.textInput = << >>]), ok)

\* the Save button of the text input with a blank text: a text that was
\* being edited is removed and everything is shown
saveBlank(a, ok) ==
    LET ti == a.textInput[1]
    IN  IF ti.editingIndex # << >>
        THEN render([saveToLocalStorage(
                        [a EXCEPT !.drawingHistory =
                                      Splice1(@, ti.editingIndex[1]),
                                  !.historyIndex = << >>], ok)
                     EXCEPT !.textInput = << >>])
        ELSE render([a EXCEPT !.textInput = << >>])

---------------------------------------------------------------------------
(* captureFullPage(tabId) of src/entrypoints/background.ts for several tabs *)
(*   requests[t].promise  "none", "pending", "resolved" or "rejected"       *)
(*   requests[t].listener resultListener of the request is added            *)
(*   requests[t].timer    "off", "armed" or "fired"                         *)
(*   requests[t].content  what the content script of the tab is doing       *)
(*   requests[t].result   << >> or <<what the promise was resolved with>>   *)

Tabs == {"tabA", "tabB"}

NoRequest ==
    [promise |-> "none", listener |-> FALSE, timer |-> "off",
     content |-> "idle", result |-> << >>]

\* resolve(value) and reject(error): a settled promise stays as it is
settle(q, promise, value) ==
    IF q.promise # "pending" THEN q
    ELSE [q EXCEPT !.promise = promise, !.result = value]

\* captureScreenshot(tabId).then(resolve).catch(reject) for the request of
\* tab t
fallback(q, t, granted) ==
    IF granted
    THEN settle(q, "resolved",
                <<[dataUrl |-> [tab |-> t, image |-> "viewport"],
                   isPDF |-> FALSE]>>)
    ELSE settle(q, "rejected", << >>)

\* resultListener of the request q of tab t gets a message
resultListener(q, t, message) ==
    IF ~q.listener THEN q
    ELSE IF Has(message, "screenshotData")
    THEN settle([q EXCEPT !.listener = FALSE], "resolved",
                <<[dataUrl |-> message.screenshotData,
                   isPDF |-> message.isPDF]>>)
    ELSE fallback([q EXCEPT !.listener = FALSE], t, message.granted[t])

---------------------------------------------------------------------------
(* Stores a pointer-down of the eraser or the move tool can find *)

\* the most annotations in such a store
MaxHitStore == 6

\* a shape drawn by a click at x, the i-th of its store
ShapeAt(x, i) ==
    [id |-> i, type |-> "rectangle", start |-> Pt(x), end |-> Pt(x),
     color |-> "red", shapeMode |-> "outline", penWidth |-> 4]

\* a text placed at x
TextAt(x) == [id |-> 100 + x, x |-> x, y |-> 0, text |-> "", color |-> "red"]

\* stores of up to MaxHitStore shapes, each at one of the positions
HitStores ==
    UNION {{[i \in 1..n |-> ShapeAt(xs[i], i)] : xs \in [1..n -> Xs]} :
              n \in 0..MaxHitStore}

\* no text, or one
HitTexts == {<< >>} \cup {<<TextAt(x)>> : x \in Xs}

NoPointerDown ==
    [tool |-> "none", texts |-> << >>, anns |-> << >>, p |-> Pt(0),
     result |-> NoHit]

---------------------------------------------------------------------------
(* localStorage keys *)

\* addresses as strings of symbols: a path, then nothing, a query, a fragment,
\* or a fragment that holds a question mark
Hrefs ==
    {base \o rest : base \in {<<"a">>, <<"b">>},
                    rest \in {<< >>, <<"?", "q">>, <<"#", "f">>,
                              <<"#", "f", "?", "q">>}}

\* str.split(sep)[0]: what precedes the first sep, all of str without one
RECURSIVE splitFirst(_, _)
splitFirst(str, sep) ==
    IF str = << >> \/ Head(str) = sep THEN << >>
    ELSE <<Head(str)>> \o splitFirst(Tail(str), sep)

\* getStorageKey() of the content script of part_001 ("annoted") and of
\* content.tsx ("proofly") when window.location.href is href
getStorageKey(engine, href) ==
    IF engine = "annoted"
    THEN <<"annoted:session:">> \o splitFirst(splitFirst(href, "#"), "?")
    ELSE <<"proofly-annotations-">> \o href

\* the most saves
MaxWrites == 2

\* what a save stores
SessionData == {"s1", "s2"}

NoItem == << >>

EmptyStorage == [entries |-> {}, writes |-> << >>, read |-> << >>]

\* localStorage.getItem(key): << >> for null
getItem(entries, key) ==
    IF \E e \in entries : e.key = key
    THEN <<(CHOOSE e \in entries : e.key = key).value>>
    ELSE NoItem

\* localStorage.setItem(key, value)
setItem(entries, key, value) ==
    {e \in entries : e.key # key} \cup {[key |-> key, value |-> value]}

---------------------------------------------------------------------------
(* Initial state: the content script's main() has run, annotation mode is off *)

NoDrag == [kind |-> "none"]

NoEdit == [idx |-> 0, lastTextValue |-> ""]

NoShare == [url |-> << >>, size |-> 0, status |-> "none"]

NoHash == [kind |-> "none"]

\* the parameters of the fragment other than annoted=, as the texts between
\* the "&" signs: those before the share parameter and those after it
NoOthers == [before |-> << >>, after |-> << >>]

\* what the last handler did: its name, the command it executed last, the
\* outcome of its last storage write, and the stores it started from
Op(name, cmd, save, before) ==
    [op |-> name, cmd |-> cmd, save |-> save, before |-> before]

SaveTag(ok) == IF ok THEN "ok" ELSE "fail"

Stores == [annotations |-> annotations, textAnnotations |-> textAnnotations]

Before ==
    <<[stores |-> Stores,
       consistent |-> (Stores = ReplayFrom(EmptyStores, undoStack))]>>

Init ==
    /\ annotations = << >>
    /\ textAnnotations = << >>
    /\ undoStack = << >>
    /\ redoStack = << >>
    /\ isActive = FALSE
    /\ toolState = DefaultToolState
    /\ isDrawing = FALSE
    /\ startPoint = << >>
    /\ currentPath = << >>
    /\ mouse = Pt(0)
    /\ dragging = NoDrag
    /\ editing = NoEdit
    /\ now = 0
    /\ rnd = 0
    /\ stored = NoEntry
    /\ hash = NoHash
    /\ fragment = NoOthers
    /\ share = NoShare
    /\ lastOp = Op("init", << >>, "none", << >>)
    /\ uncaught = FALSE
    /\ fails = 0
    /\ page = DefaultPage
    /\ cap = NoCapture
    /\ bridge = IdleBridge
    /\ app = MountedApp
    /\ cap2 = NoCapture
    /\ pointerDown = NoPointerDown
    /\ localStorage = EmptyStorage
    /\ requests = [t \in Tabs |-> NoRequest]

\* annotation mode is on and activate() ran to its end: the toolbar and the
\* canvas listeners exist
Ready == isActive /\ ~uncaught

\* no pointer interaction and no text edit is in progress
Idle == ~isDrawing /\ dragging.kind = "none" /\ editing.idx = 0

pointerVars == <<isDrawing, startPoint, currentPath, mouse, dragging>>

\* outcomes of localStorage.setItem during a handler: it stores the entry
\* (TRUE) or throws QuotaExceededError (FALSE)
WriteOutcomes == IF fails < MaxFail THEN BOOLEAN ELSE {TRUE}

CountFail == fails' = IF lastOp'.save = "fail" THEN fails + 1 ELSE fails

---------------------------------------------------------------------------
(* Toolbar *)

ToolButtons == {"pen", "highlighter", "move", "text", "eraser"}

IsShape(t) == t \in {"rectangle", "circle", "arrow"}

\* the onClick of the pen / highlighter / move / text / eraser buttons
SelectTool(t, ok) ==
    /\ Ready /\ Idle
    /\ LET e1 == [Eng EXCEPT !.toolState.activeTool =
                        IF @ = t THEN NoTool ELSE t]
       IN  SetEng(saveSession(e1, ok))
    /\ lastOp' = Op("tool", << >>, SaveTag(ok), << >>)
    /\ CountFail
    /\ UNCHANGED <<captureVars, otherVars>>
    /\ share' = NoShare
    /\ UNCHANGED <<isActive, pointerVars, editing, now, rnd, hash, fragment>>

\* the left click of the shapes button
SelectShape(ok) ==
    /\ Ready /\ Idle
    /\ LET e1 == [Eng EXCEPT !.toolState.activeTool =
                        IF IsShape(@) THEN NoTool ELSE toolState.shapeType]
       IN  SetEng(saveSession(e1, ok))
    /\ lastOp' = Op("tool", << >>, SaveTag(ok), << >>)
    /\ CountFail
    /\ UNCHANGED <<captureVars, otherVars>>
    /\ share' = NoShare
    /\ UNCHANGED <<isActive, pointerVars, editing, now, rnd, hash, fragment>>

\* the Undo button
Undo(ok) ==
    /\ Ready /\ Idle
    /\ SetEng(undo(Eng, ok))
    /\ lastOp' = IF Len(undoStack) = 0
                 THEN Op("undo", << >>, "none", << >>)
                 ELSE Op("undo", << >>, SaveTag(ok), Before)
    /\ CountFail
    /\ UNCHANGED <<captureVars, otherVars>>
    /\ share' = NoShare
    /\ UNCHANGED <<isActive, pointerVars, editing, now, rnd, hash, fragment>>

\* the Redo button
Redo(ok) ==
    /\ Ready /\ Idle
    /\ SetEng(redo(Eng, ok))
    /\ lastOp' = IF Len(redoStack) = 0
                 THEN Op("redo", << >>, "none", << >>)
                 ELSE Op("redo", << >>, SaveTag(ok), << >>)
    /\ CountFail
    /\ UNCHANGED <<captureVars, otherVars>>
    /\ share' = NoShare
    /\ UNCHANGED <<isActive, pointerVars, editing, now, rnd, hash, fragment>>

\* the Clear All button: the command is executed, then the handler empties
\* both stores itself
clearAllClick(e, ok) ==
    IF Len(e.annotations) = 0 /\ Len(e.textAnnotations) = 0 THEN e
    ELSE LET cmd == [type |-> "clear_all",
                     deletedAnnotations |-> e.annotations,
                     deletedTexts |-> e.textAnnotations]
             e1 == executeCommand(e, cmd, ok)
         IN  IF e1.uncaught THEN e1 ELSE WithStores(e1, EmptyStores)

ClearAll(ok) ==
    /\ Ready /\ Idle
    /\ Len(undoStack) < MaxLog
    /\ SetEng(clearAllClick(Eng, ok))
    /\ lastOp' = IF Len(annotations) = 0 /\ Len(textAnnotations) = 0
                 THEN Op("clear", << >>, "none", << >>)
                 ELSE Op("clear",
                         <<[type |-> "clear_all",
                            deletedAnnotations |-> annotations,
                            deletedTexts |-> textAnnotations]>>,
                         SaveTag(ok), Before)
    /\ CountFail
    /\ UNCHANGED <<captureVars, otherVars>>
    /\ share' = NoShare
    /\ UNCHANGED <<isActive, pointerVars, editing, now, rnd, hash, fragment>>

---------------------------------------------------------------------------
(* handleMouseDown *)

CanDown == Ready /\ Idle /\ toolState.activeTool # NoTool

\* the command the eraser builds for a hit
EraserCmd(texts, anns, hit) ==
    IF hit.kind = "text"
    THEN <<[type |-> "delete", targetId |-> texts[hit.i].id,
            deletedText |-> texts[hit.i]]>>
    ELSE IF hit.kind = "annotation"
    THEN <<[type |-> "delete", targetId |-> anns[hit.i].id,
            deletedAnnotation |-> anns[hit.i]]>>
    ELSE << >>

\* the eraser branch: executeCommand, then the handler's own findIndex / splice
\* on the store the hit came from
eraserDown(e, p, ok) ==
    LET hit == hitTestAnnotation(e.textAnnotations, e.annotations, p)
        c == EraserCmd(e.textAnnotations, e.annotations, hit)
    IN  IF c = << >> THEN e
        ELSE LET e1 == executeCommand(e, c[1], ok)
             IN  IF e1.uncaught THEN e1
                 ELSE IF hit.kind = "text"
                 THEN [e1 EXCEPT !.textAnnotations =
                        Splice1(@, FindIndexById(@, c[1].targetId))]
                 ELSE [e1 EXCEPT !.annotations =
                        Splice1(@, FindIndexById(@, c[1].targetId))]

EraserDown(p, ok) ==
    /\ CanDown /\ toolState.activeTool = "eraser"
    /\ Len(undoStack) < MaxLog
    /\ SetEng(eraserDown(Eng, p, ok))
    /\ LET c == EraserCmd(textAnnotations, annotations,
                    hitTestAnnotation(textAnnotations, annotations, p))
       IN  lastOp' = IF c = << >> THEN Op("erase", << >>, "none", << >>)
                     ELSE Op("erase", c, SaveTag(ok), Before)
    /\ CountFail
    /\ UNCHANGED <<captureVars, otherVars>>
    /\ share' = NoShare
    /\ UNCHANGED <<isActive, pointerVars, editing, now, rnd, hash, fragment>>

\* the text branch: t is the reading of Date.now()
TextCmd(p, t) ==
    [type |-> "addText",
     annotation |-> [id |-> t, x |-> p.x, y |-> p.y, text |-> "",
                     color |-> toolState.color]]

TextDown(p, t, ok) ==
    /\ CanDown /\ toolState.activeTool = "text"
    /\ Len(undoStack) < MaxLog
    /\ t >= now /\ t <= MaxClock
    /\ SetEng(executeCommand(Eng, TextCmd(p, t), ok))
    /\ now' = t
    /\ lastOp' = Op("text", <<TextCmd(p, t)>>, SaveTag(ok), << >>)
    /\ CountFail
    /\ UNCHANGED <<captureVars, otherVars>>
    /\ share' = NoShare
    /\ UNCHANGED <<isActive, pointerVars, editing, rnd, hash, fragment>>

\* the move branch
moveDown(texts, anns, p) ==
    LET hit == moveHitTest(texts, anns, p)
    IN  IF hit.kind = "text"
        THEN LET t == texts[hit.i]
                 el == texts[FindIndexById(texts, t.id)]
             IN  [kind |-> "text", id |-> t.id,
                  offsetX |-> p.x - el.x, offsetY |-> p.y - el.y,
                  moveStartPos |-> [x |-> t.x, y |-> t.y],
                  moveStartText |-> t]
        ELSE IF hit.kind = "annotation"
        THEN [kind |-> "annotation", index |-> hit.i - 1,
              moveStartPos |-> p, moveStartAnnotation |-> anns[hit.i]]
        ELSE NoDrag

MoveDown(p) ==
    /\ CanDown /\ toolState.activeTool = "move"
    /\ Len(undoStack) < MaxLog
    /\ dragging' = moveDown(textAnnotations, annotations, p)
    /\ lastOp' = Op("down", << >>, "none", << >>)
    /\ CountFail
    /\ UNCHANGED <<captureVars, otherVars>>
    /\ share' = NoShare
    /\ UNCHANGED <<annotations, textAnnotations, undoStack, redoStack, isActive,
                   toolState, isDrawing, startPoint, currentPath, mouse,
                   editing, now, rnd, stored, hash, fragment, uncaught>>

IsPathTool(t) == t \in {"pen", "highlighter"}

\* "Start drawing"
DrawDown(p) ==
    /\ CanDown
    /\ IsPathTool(toolState.activeTool) \/ IsShape(toolState.activeTool)
    /\ Len(undoStack) < MaxLog /\ rnd < MaxRnd
    /\ isDrawing' = TRUE
    /\ startPoint' = <<p>>
    /\ currentPath' = IF IsPathTool(toolState.activeTool) THEN <<p>>
                      ELSE currentPath
    /\ lastOp' = Op("down", << >>, "none", << >>)
    /\ CountFail
    /\ UNCHANGED <<captureVars, otherVars>>
    /\ share' = NoShare
    /\ UNCHANGED <<annotations, textAnnotations, undoStack, redoStack, isActive,
                   toolState, mouse, dragging, editing, now, rnd, stored, hash, fragment,
                   uncaught>>

---------------------------------------------------------------------------
(* handleMouseMove *)

AddPt(a, dx, dy) == [x |-> a.x + dx, y |-> a.y + dy]

\* the preview of a dragged annotation, computed from moveStartAnnotation
DragAnnotation(ann, msa, dx, dy) ==
    LET a1 == [ann EXCEPT !.start = AddPt(msa.start, dx, dy)]
        a2 == IF Has(a1, "end") /\ Has(msa, "end")
              THEN [a1 EXCEPT !.end = AddPt(msa.end, dx, dy)] ELSE a1
    IN  IF Has(a2, "path") /\ Has(msa, "path")
        THEN [a2 EXCEPT !.path =
                [k \in 1..Len(msa.path) |-> AddPt(msa.path[k], dx, dy)]]
        ELSE a2

MouseMove(p) ==
    /\ Ready /\ editing.idx = 0 /\ toolState.activeTool # NoTool
    /\ mouse' = p
    /\ IF dragging.kind = "text"
       THEN /\ textAnnotations' =
                   SetPosOf(textAnnotations, dragging.id,
                            [x |-> p.x - dragging.offsetX,
                             y |-> p.y - dragging.offsetY])
            /\ UNCHANGED <<annotations, currentPath>>
       ELSE IF dragging.kind = "annotation"
       THEN /\ annotations' =
                   [annotations EXCEPT ![dragging.index + 1] =
                       DragAnnotation(@, dragging.moveStartAnnotation,
                                      p.x - dragging.moveStartPos.x,
                                      p.y - dragging.moveStartPos.y)]
            /\ UNCHANGED <<textAnnotations, currentPath>>
       ELSE IF isDrawing /\ IsPathTool(toolState.activeTool)
       THEN /\ Len(currentPath) < MaxPath
            /\ currentPath' = Append(currentPath, p)
            /\ UNCHANGED <<annotations, textAnnotations>>
       ELSE UNCHANGED <<annotations, textAnnotations, currentPath>>
    /\ lastOp' = Op("move", << >>, "none", << >>)
    /\ CountFail
    /\ UNCHANGED <<captureVars, otherVars>>
    /\ share' = NoShare
    /\ UNCHANGED <<undoStack, redoStack, isActive, toolState, isDrawing,
                   startPoint, dragging, editing, now, rnd, stored, hash, fragment,
                   uncaught>>

---------------------------------------------------------------------------
(* handleMouseUp (mouseup and mouseleave) *)

Opt(r, f) == IF Has(r, f) THEN <<r[f]>> ELSE << >>

\* the command of a finished annotation drag; a member whose source is missing
\* holds undefined
MoveAnnotationCmd(anns, d) ==
    LET ann == anns[d.index + 1]
        msa == d.moveStartAnnotation
    IN  [type |-> "moveAnnotation", index |-> d.index,
         oldStart |-> msa.start, oldEnd |-> Opt(msa, "end"),
         oldPath |-> Opt(msa, "path"),
         newStart |-> ann.start, newEnd |-> Opt(ann, "end"),
         newPath |-> Opt(ann, "path")]

MoveTextCmd(texts, d) ==
    LET t == texts[FindIndexById(texts, d.id)]
    IN  [type |-> "moveText", id |-> t.id,
         oldPos |-> [x |-> d.moveStartText.x, y |-> d.moveStartText.y],
         newPos |-> [x |-> t.x, y |-> t.y]]

\* the annotation a finished stroke or shape commits
DrawnCmd(tool, id) ==
    IF tool = "pen" \/ tool = "highlighter"
    THEN [type |-> IF tool = "pen" THEN "addPen" ELSE "addHighlighter",
          annotation |-> [id |-> id, type |-> tool, start |-> currentPath[1],
                          path |-> currentPath, color |-> toolState.color,
                          penWidth |-> toolState.penWidth]]
    ELSE [type |-> "addShape",
          annotation |-> [id |-> id, type |-> tool, start |-> startPoint[1],
                          end |-> mouse, color |-> toolState.color,
                          shapeMode |-> toolState.shapeFillMode,
                          penWidth |-> toolState.penWidth]]

\* a stroke is committed with one point already
minPointsMutOne(path) == Len(path) > 0

\* a stroke is committed only with more than one point
minPoints(path) == Len(path) > 1

\* the command handleMouseUp executes, << >> when it executes none
MouseUpCmd ==
    IF dragging.kind = "text"
    THEN IF FindIndexById(textAnnotations, dragging.id) = 0 THEN << >>
         ELSE <<MoveTextCmd(textAnnotations, dragging)>>
    ELSE IF dragging.kind = "annotation"
    THEN <<MoveAnnotationCmd(annotations, dragging)>>
    ELSE IF ~isDrawing \/ toolState.activeTool = NoTool \/ startPoint = << >>
    THEN << >>
    ELSE IF IsPathTool(toolState.activeTool) /\ ~minPoints(currentPath)
    THEN << >>
    ELSE IF IsPathTool(toolState.activeTool) \/ IsShape(toolState.activeTool)
    THEN <<DrawnCmd(toolState.activeTool, rnd + 1)>>
    ELSE << >>

MouseUp(ok) ==
    /\ Ready /\ editing.idx = 0 /\ toolState.activeTool # NoTool
    /\ LET c == MouseUpCmd
           e1 == IF c = << >> THEN Eng ELSE executeCommand(Eng, c[1], ok)
       IN  /\ SetEng(e1)
           /\ lastOp' = IF c = << >> THEN Op("up", << >>, "none", << >>)
                        ELSE Op("up", c, SaveTag(ok), << >>)
           /\ rnd' = IF c # << >> /\ IsAddAnnotation(c[1]) THEN rnd + 1
                     ELSE rnd
           /\ IF e1.uncaught
              THEN UNCHANGED <<isDrawing, startPoint, currentPath, dragging>>
              ELSE /\ dragging' = NoDrag
                   /\ IF dragging.kind = "none"
                      THEN /\ isDrawing' = FALSE
                           /\ startPoint' = << >>
                           /\ currentPath' = << >>
                      ELSE UNCHANGED <<isDrawing, startPoint, currentPath>>
    /\ CountFail
    /\ UNCHANGED <<captureVars, otherVars>>
    /\ share' = NoShare
    /\ UNCHANGED <<isActive, mouse, editing, now, hash, fragment>>

---------------------------------------------------------------------------
(* The input element of a text annotation (updateTextAnnotations) *)

\* values the user leaves in an input
TextValues == {"", " ", "a"}

\* String.prototype.trim on those values
Trim(v) == IF v = " " THEN "" ELSE v

\* the input of textAnnotations[i] receives the focus; lastTextValue is the
\* text the element was built with
Focus(i) ==
    /\ Ready /\ Idle
    /\ i \in 1..Len(textAnnotations)
    /\ editing' = [idx |-> i, lastTextValue |-> textAnnotations[i].text]
    /\ lastOp' = Op("focus", << >>, "none", << >>)
    /\ CountFail
    /\ UNCHANGED <<captureVars, otherVars>>
    /\ share' = NoShare
    /\ UNCHANGED <<annotations, textAnnotations, undoStack, redoStack, isActive,
                   toolState, pointerVars, now, rnd, stored, hash, fragment, uncaught>>

\* input.oninput: text.text = value, on the store's own object
Type(v) ==
    /\ Ready /\ editing.idx # 0
    /\ v # textAnnotations[editing.idx].text
    /\ textAnnotations' = [textAnnotations EXCEPT ![editing.idx].text = v]
    /\ lastOp' = Op("input", << >>, "none", << >>)
    /\ CountFail
    /\ UNCHANGED <<captureVars, otherVars>>
    /\ UNCHANGED <<annotations, undoStack, redoStack, isActive, toolState,
                   pointerVars, editing, now, rnd, stored, hash, fragment, share,
                   uncaught>>

\* the editText command of input.onblur, << >> when the text is unchanged
BlurEditCmd(text, lastTextValue) ==
    IF text.text # lastTextValue
    THEN <<[type |-> "editText", id |-> text.id, oldText |-> lastTextValue,
            newText |-> text.text]>>
    ELSE << >>

\* the deleteText command of input.onblur, << >> when none is executed
BlurDeleteCmd(texts, text) ==
    LET index == FindIndexById(texts, text.id)
    IN  IF Trim(text.text) = "" /\ index > 0
        THEN <<[type |-> "deleteText", annotation |-> texts[index]]>>
        ELSE << >>

\* input.onblur for the input of textAnnotations[i]
onblur(e, i, lastTextValue, ok) ==
    LET text == e.textAnnotations[i]
        ce == BlurEditCmd(text, lastTextValue)
        e1 == IF ce = << >> THEN e ELSE executeCommand(e, ce[1], ok)
        cd == BlurDeleteCmd(e1.textAnnotations, text)
        index == FindIndexById(e1.textAnnotations, text.id)
    IN  IF e1.uncaught \/ cd = << >> THEN e1
        ELSE LET e2 == executeCommand(e1, cd[1], ok)
             IN  IF e2.uncaught THEN e2
                 ELSE [e2 EXCEPT !.textAnnotations = Splice1(@, index)]

Blur(ok) ==
    /\ Ready /\ editing.idx # 0
    /\ LET e1 == onblur(Eng, editing.idx, editing.lastTextValue, ok)
           text == textAnnotations[editing.idx]
           ce == BlurEditCmd(text, editing.lastTextValue)
           em == IF ce = << >> THEN Eng ELSE executeCommand(Eng, ce[1], ok)
           cd == BlurDeleteCmd(em.textAnnotations, text)
       IN  /\ Len(e1.undoStack) <= MaxLog
           /\ SetEng(e1)
           /\ lastOp' = IF cd # << >> THEN Op("blur", cd, SaveTag(ok), << >>)
                        ELSE IF ce # << >>
                        THEN Op("blur", ce, SaveTag(ok), << >>)
                        ELSE Op("blur", << >>, "none", << >>)
    /\ CountFail
    /\ UNCHANGED <<captureVars, otherVars>>
    /\ editing' = NoEdit
    /\ share' = NoShare
    /\ UNCHANGED <<isActive, pointerVars, now, rnd, hash, fragment>>

---------------------------------------------------------------------------
(* Session load *)

\* what JSON.parse(stored) and the member reads of loadSession do with the
\* entry: "garbage" is no JSON text (JSON.parse throws), "null" is the JSON
\* text null (reading session.pageUrl throws)
LoadThrows(entry) == entry.kind \in {"garbage", "null"}

\* loadSession(): the result and the entry left in storage; the stored address
\* is session.pageUrl || session.url, and toolState is undefined (<< >>) in an
\* entry that has none
loadSession(entry) ==
    IF entry.kind = "none"
    THEN [actions |-> << >>, toolState |-> << >>, stored |-> entry]
    ELSE IF LoadThrows(entry)
    THEN [actions |-> << >>, toolState |-> << >>, stored |-> NoEntry]
    ELSE IF StripHashQuery(entry.pageUrl) = PageUrl
    THEN [actions |-> entry.actions, toolState |-> Opt(entry, "toolState"),
          stored |-> entry]
    ELSE [actions |-> << >>, toolState |-> << >>, stored |-> entry]

\* the JSON value null as an element of a stored actions array
JsonNull == [json |-> "null"]

\* the position of the first element of commands whose cmd.type read throws a
\* TypeError, 0 when there is none
FirstThrowing(commands) ==
    IF \E i \in 1..Len(commands) : commands[i] = JsonNull
    THEN CHOOSE i \in 1..Len(commands) :
            /\ commands[i] = JsonNull
            /\ \A j \in 1..(i - 1) : commands[j] # JsonNull
    ELSE 0

\* activate()'s "Restore tool state if available": a member is taken when it is
\* truthy, the active tool when it is neither undefined nor null
MergeToolState(cur, ts) ==
    [cur EXCEPT !.activeTool = IF ts.activeTool # NoTool THEN ts.activeTool
                               ELSE @,
                !.color = ts.color, !.penWidth = ts.penWidth,
                !.shapeType = ts.shapeType,
                !.shapeFillMode = ts.shapeFillMode]

---------------------------------------------------------------------------
(* Share links *)

SAFE_LIMIT == 6000
HARD_LIMIT == 8000

\* lengths LZString.compressToEncodedURIComponent may return
SizeChoices == {SAFE_LIMIT, SAFE_LIMIT + 1, HARD_LIMIT, HARD_LIMIT + 1}

\* the session object generateShareUrl serializes; the lz-string codec is
\* lossless, so the fragment is represented by the JSON value it carries
SharePayload(e) ==
    [v |-> 1, pageUrl |-> PageUrl, actions |-> JsonCloneSeq(e.undoStack),
     toolState |-> e.toolState]

\* generateShareUrl that blocks a payload of exactly HARD_LIMIT characters
generateShareUrlMutAtLimit(e, size) ==
    IF size >= HARD_LIMIT
    THEN [url |-> << >>, size |-> size, status |-> "blocked"]
    ELSE IF size > SAFE_LIMIT
    THEN [url |-> <<SharePayload(e)>>, size |-> size, status |-> "warning"]
    ELSE [url |-> <<SharePayload(e)>>, size |-> size, status |-> "safe"]

\* generateShareUrl(), size being the length of the compressed text; the
\* session object holds JSON values only, so JSON.stringify does not throw
generateShareUrl(e, size) ==
    IF size > HARD_LIMIT
    THEN [url |-> << >>, size |-> size, status |-> "blocked"]
    ELSE IF size > SAFE_LIMIT
    THEN [url |-> <<SharePayload(e)>>, size |-> size, status |-> "warning"]
    ELSE [url |-> <<SharePayload(e)>>, size |-> size, status |-> "safe"]

\* the fragment "#annoted=<compressed>" carrying a payload
LinkHash(payload) == [kind |-> "payload", session |-> payload]

\* restoreFromUrl that keeps its own toolState / log and only strips the link
restoreFromUrlMutSkip(e, h, ok) ==
    IF h.kind = "payload" /\ h.session.v = 1 /\ h.session.pageUrl = PageUrl
    THEN [e |-> e, hash |-> NoHash, restored |-> TRUE]
    ELSE [e |-> e, hash |-> h, restored |-> FALSE]

\* restoreFromUrl that leaves the address as it was after a restore
restoreFromUrlMutKeepHash(e, h, ok) ==
    IF h.kind \in {"none", "undecodable"}
    THEN [e |-> e, hash |-> h, restored |-> FALSE]
    ELSE IF h.kind = "unparsable"
    THEN [e |-> e, hash |-> NoHash, restored |-> FALSE]
    ELSE IF h.session.v # 1 \/ h.session.pageUrl # PageUrl
    THEN [e |-> e, hash |-> h, restored |-> FALSE]
    ELSE LET e1 == [e EXCEPT !.toolState = h.session.toolState]
             k == FirstThrowing(h.session.actions)
             e2 == [WithStores(e1, replayCommands(StoresOf(e1),
                                                  h.session.actions)) EXCEPT
                        !.undoStack = JsonCloneSeq(h.session.actions)]
         IN  IF k # 0
             THEN [e |-> WithStores(e1, replayCommands(StoresOf(e1),
                                        SubSeq(h.session.actions, 1, k - 1))),
                   hash |-> NoHash, restored |-> FALSE]
             ELSE [e |-> saveSession(e2, ok), hash |-> h, restored |-> TRUE]

\* restoreFromUrl(): the engine, the fragment and the return value.
\*   "none"         no annoted= parameter
\*   "undecodable"  decompressFromEncodedURIComponent returns null or ""
\*   "unparsable"   the decompressed text is no JSON: the catch block strips
\*                  the parameter
\*   "payload"      a session object; when replayCommands throws on one of
\*                  its actions the catch block strips the parameter, after
\*                  the tool state was assigned and the commands before the
\*                  throwing one were replayed
restoreFromUrl(e, h, ok) ==
    IF h.kind \in {"none", "undecodable"}
    THEN [e |-> e, hash |-> h, restored |-> FALSE]
    ELSE IF h.kind = "unparsable"
    THEN [e |-> e, hash |-> NoHash, restored |-> FALSE]
    ELSE IF h.session.v # 1 \/ h.session.pageUrl # PageUrl
    THEN [e |-> e, hash |-> h, restored |-> FALSE]
    ELSE LET ts == h.session.toolState
             e1 == [e EXCEPT !.toolState = ts]
             k == FirstThrowing(h.session.actions)
             st == replayCommands(StoresOf(e1), h.session.actions)
             e2 == [WithStores(e1, st) EXCEPT
                        !.undoStack = JsonCloneSeq(h.session.actions)]
         IN  IF k # 0
             THEN [e |-> WithStores(e1, replayCommands(StoresOf(e1),
                                        SubSeq(h.session.actions, 1, k - 1))),
                   hash |-> NoHash, restored |-> FALSE]
             ELSE [e |-> saveSession(e2, ok), hash |-> NoHash,
                   restored |-> TRUE]

---------------------------------------------------------------------------
(* activate / deactivate, page load *)

OtherParam == "sec=1"

Fragments ==
    {NoOthers,
     [before |-> <<OtherParam>>, after |-> << >>],
     [before |-> << >>, after |-> <<OtherParam>>]}

\* hash.replace(/annoted=[^&]+&?/, "").replace(/^#&/, "#").replace(/^#$/, ""):
\* the parameter goes with the "&" after it; a parameter in front of a last
\* share parameter keeps its "&", which leaves an empty text behind it
CleanUpHash(o) ==
    [before |-> << >>,
     after |-> IF o.before # << >> /\ o.after = << >>
               THEN Append(o.before, "")
               ELSE o.before \o o.after]

\* activate(): a share link first, the stored session otherwise; an exception
\* of replayCommands leaves activate before the tool state is restored and
\* before createToolbar
activate(e, h, ok) ==
    LET r == restoreFromUrl(e, h, ok)
        s == loadSession(r.e.stored)
        e1 == [r.e EXCEPT !.stored = s.stored]
        k == FirstThrowing(s.actions)
        e2 == IF Len(s.actions) = 0 THEN e1
              ELSE IF k = 0
              THEN [WithStores(e1, replayCommands(StoresOf(e1), s.actions))
                        EXCEPT !.undoStack = s.actions]
              ELSE [WithStores(e1, replayCommands(StoresOf(e1),
                                        SubSeq(s.actions, 1, k - 1)))
                        EXCEPT !.undoStack = s.actions, !.uncaught = TRUE]
        e3 == IF e2.uncaught THEN e2
              ELSE IF s.toolState # << >>
              THEN [e2 EXCEPT !.toolState = MergeToolState(@, s.toolState[1])]
              ELSE e2
    IN  IF r.restored THEN r ELSE [e |-> e3, hash |-> r.hash, restored |-> FALSE]

Activate(ok) ==
    /\ ~isActive
    /\ \E r \in {activate(Eng, hash, ok)} :
           /\ SetEng(r.e)
           /\ hash' = r.hash
           /\ fragment' = IF hash.kind # "none" /\ hash'.kind = "none"
                          THEN CleanUpHash(fragment)
                          ELSE fragment
           /\ lastOp' = IF r.restored
                        THEN Op("restore", << >>, SaveTag(ok), << >>)
                        ELSE Op("activate", << >>, "none", << >>)
    /\ CountFail
    /\ UNCHANGED <<captureVars, otherVars>>
    /\ isActive' = TRUE
    /\ share' = NoShare
    /\ UNCHANGED <<pointerVars, editing, now, rnd>>

Deactivate ==
    /\ Ready /\ Idle
    /\ isActive' = FALSE
    /\ lastOp' = Op("deactivate", << >>, "none", << >>)
    /\ CountFail
    /\ UNCHANGED <<captureVars, otherVars>>
    /\ share' = NoShare
    /\ UNCHANGED <<annotations, textAnnotations, undoStack, redoStack,
                   toolState, pointerVars, editing, now, rnd, stored, hash, fragment,
                   uncaught>>

\* the state of a content script whose main() has just run
FreshScript ==
    /\ annotations' = << >>
    /\ textAnnotations' = << >>
    /\ undoStack' = << >>
    /\ redoStack' = << >>
    /\ isActive' = FALSE
    /\ toolState' = DefaultToolState
    /\ isDrawing' = FALSE
    /\ startPoint' = << >>
    /\ currentPath' = << >>
    /\ mouse' = Pt(0)
    /\ dragging' = NoDrag
    /\ editing' = NoEdit
    /\ share' = NoShare
    /\ uncaught' = FALSE

\* the page is loaded again: a new content script, the same localStorage and
\* the same address
Reload ==
    /\ Idle
    /\ undoStack # << >> \/ redoStack # << >>
    /\ FreshScript
    /\ lastOp' = Op("load", << >>, "none", << >>)
    /\ CountFail
    /\ UNCHANGED <<captureVars, otherVars>>
    /\ UNCHANGED <<now, rnd, stored, hash, fragment>>

\* the Share button: showShareModal calls generateShareUrl
Share(size) ==
    /\ Ready /\ Idle
    /\ share' = generateShareUrl(Eng, size)
    /\ lastOp' = Op("share", << >>, "none", << >>)
    /\ CountFail
    /\ UNCHANGED <<captureVars, otherVars>>
    /\ UNCHANGED <<annotations, textAnnotations, undoStack, redoStack, isActive,
                   toolState, pointerVars, editing, now, rnd, stored, hash, fragment,
                   uncaught>>

\* the generated link is opened: the page loads with the link's fragment,
\* alone or next to another parameter
OpenShareLink(o) ==
    /\ share.url # << >>
    /\ FreshScript
    /\ hash' = LinkHash(share.url[1])
    /\ fragment' = o
    /\ lastOp' = Op("open", << >>, "none", << >>)
    /\ CountFail
    /\ UNCHANGED <<captureVars, otherVars>>
    /\ UNCHANGED <<now, rnd, stored>>

\* fragments that are no share link of this page, and a link of this page
\* whose second action is null
BadHashes ==
    {[kind |-> "undecodable"], [kind |-> "unparsable"],
     LinkHash([v |-> 2, pageUrl |-> PageUrl, actions |-> << >>,
               toolState |-> DefaultToolState]),
     LinkHash([v |-> 1, pageUrl |-> OtherUrl, actions |-> << >>,
               toolState |-> DefaultToolState]),
     LinkHash([v |-> 1, pageUrl |-> PageUrl,
               actions |-> <<[type |-> "addText",
                              annotation |-> [id |-> 2, x |-> 0, y |-> 0,
                                              text |-> "", color |-> "red"]],
                             JsonNull>>,
               toolState |-> DefaultToolState])}

\* the address gets such a fragment while annotation mode is off
OpenBadLink(h) ==
    /\ ~isActive
    /\ hash = NoHash
    /\ hash' = h
    /\ lastOp' = Op("env", << >>, "none", << >>)
    /\ CountFail
    /\ UNCHANGED <<captureVars, otherVars>>
    /\ UNCHANGED <<annotations, textAnnotations, undoStack, redoStack, isActive,
                   toolState, pointerVars, editing, now, rnd, stored, share,
                   fragment, uncaught>>

\* the entry as the earlier variant's saveSession wrote it: { url, actions }
LegacyEntry(entry) ==
    [kind |-> "session", pageUrl |-> PageUrlWithQuery,
     actions |-> entry.actions]

\* what the storage key may hold instead of the entry saveSession wrote: text
\* that is no JSON, the JSON text null, a session object whose actions array
\* holds null, the entry of another address, the earlier variant's entry
DamagedEntries(entry) ==
    {[kind |-> "garbage"], [kind |-> "null"],
     [kind |-> "session", version |-> 1, pageUrl |-> PageUrl,
      toolState |-> DefaultToolState, actions |-> <<JsonNull>>]}
        \cup (IF entry.kind = "session" /\ entry.pageUrl = PageUrl
              THEN {[entry EXCEPT !.pageUrl = OtherUrl], LegacyEntry(entry)}
              ELSE {})

DamageStorage(d) ==
    /\ ~isActive
    /\ stored.kind = "none" \/ (stored.kind = "session" /\ stored.pageUrl = PageUrl)
    /\ stored' = d
    /\ lastOp' = Op("env", << >>, "none", << >>)
    /\ CountFail
    /\ UNCHANGED <<captureVars, otherVars>>
    /\ UNCHANGED <<annotations, textAnnotations, undoStack, redoStack, isActive,
                   toolState, pointerVars, editing, now, rnd, hash, fragment, share,
                   uncaught>>

---------------------------------------------------------------------------
(* executeCommand called with any command *)

Ids == {1, 2}

PenAnn(id) ==
    [id |-> id, type |-> "pen", start |-> Pt(0), path |-> <<Pt(0), Pt(0)>>,
     color |-> "red", penWidth |-> 4]

ShapeAnn(id) ==
    [id |-> id, type |-> "rectangle", start |-> Pt(0), end |-> Pt(300),
     color |-> "red", shapeMode |-> "outline", penWidth |-> 4]

TextAnn(id) == [id |-> id, x |-> 0, y |-> 0, text |-> "", color |-> "red"]

\* values of a member that may hold undefined
OptValues(v) == {<< >>, <<v>>}

\* commands of every type of the Command union, with identifiers and indexes
\* that are or are not in the stores, and one command of no known type
Commands ==
    {[type |-> "addPen", annotation |-> PenAnn(id)] : id \in Ids}
    \cup {[type |-> "addShape", annotation |-> ShapeAnn(id)] : id \in Ids}
    \cup {[type |-> "addText", annotation |-> TextAnn(id)] : id \in Ids}
    \cup {[type |-> "editText", id |-> id, oldText |-> "", newText |-> "a"] :
            id \in Ids}
    \cup {[type |-> "moveAnnotation", index |-> i, oldStart |-> Pt(0),
           oldEnd |-> << >>, oldPath |-> << >>, newStart |-> Pt(300),
           newEnd |-> ne, newPath |-> np] :
            i \in {0, 1}, ne \in OptValues(Pt(300)),
            np \in OptValues(<<Pt(300), Pt(300)>>)}
    \cup {[type |-> "moveText", id |-> id, oldPos |-> Pt(0),
           newPos |-> Pt(300)] : id \in Ids}
    \cup {[type |-> "deleteText", annotation |-> TextAnn(id)] : id \in Ids}
    \cup {[type |-> "delete", targetId |-> id,
           deletedAnnotation |-> PenAnn(id)] : id \in Ids}
    \cup {[type |-> "delete", targetId |-> id,
           deletedText |-> TextAnn(id)] : id \in Ids}
    \cup {[type |-> "delete", targetId |-> id] : id \in Ids}
    \cup {[type |-> "clear_all", deletedAnnotations |-> << >>,
           deletedTexts |-> << >>],
          [type |-> "unknown"]}

\* a caller executes cmd
Execute(cmd, ok) ==
    /\ Len(undoStack) < MaxLog
    /\ SetEng(executeCommand(Eng, cmd, ok))
    /\ lastOp' = Op("execute", <<cmd>>, SaveTag(ok), << >>)
    /\ CountFail
    /\ UNCHANGED <<captureVars, otherVars>>
    /\ UNCHANGED <<isActive, pointerVars, editing, now, rnd, hash, fragment, share>>

---------------------------------------------------------------------------
(* The page changes while no capture runs *)

CaptureIdle ==
    /\ cap.pc = "idle" /\ cap2.pc = "idle"
    /\ bridge.pc = "idle" /\ bridge.timer # "armed"

\* the document is laid out with another size
PageLayout(W, H) ==
    /\ CaptureIdle
    /\ page' = [page EXCEPT !.pageWidth = W, !.pageHeight = H,
                            !.scroll = Point(0, 0)]
    /\ UNCHANGED <<cap, bridge, editorVars, otherVars>>

\* the user scrolls
UserScroll(x, y) ==
    /\ CaptureIdle
    /\ page' = scrollTo(page, x, y)
    /\ page' # page
    /\ UNCHANGED <<cap, bridge, editorVars, otherVars>>

\* a script of the page sets the inline visibility of one of its elements
PageStyle(e, v) ==
    /\ CaptureIdle
    /\ page.vis[e] # v
    /\ page' = [page EXCEPT !.vis[e] = v]
    /\ UNCHANGED <<cap, bridge, editorVars, otherVars>>

\* a script of the page sets or removes the inline background of the document
\* element
PageBackground(b) ==
    /\ CaptureIdle
    /\ page.background # b
    /\ page' = [page EXCEPT !.background = b]
    /\ UNCHANGED <<cap, bridge, editorVars, otherVars>>

---------------------------------------------------------------------------
(* Full-page capture in the content script: captureFullPage(format) of the  *)
(* capture modal and captureFullPageInternal of the message listener        *)
(*   cap.slices   one record per captured tile: its indices, the scroll     *)
(*                position and the inline visibilities the tab had when it  *)
(*                was captured                                              *)
(*   cap.image    the rectangles stitchImages draws the tiles into          *)
(*   cap.firstCaptureBackground, cap.firstCaptureOverlayState               *)
(*                the variables of that name declared before the try block, *)
(*                which the finally block reads                             *)
(*   cap.before   the inline styles the capture found                       *)
(*   cap.tileState  << >> or <<the scroll position and the visibilities the *)
(*                capture has set for the tile it waits for>>               *)
(*   cap.overlayState, cap.originalBackground                               *)
(*                what the loop of captureFullPageInternal keeps of         *)
(*                waitForFirstCaptureSettling for the first tile            *)

\* the state captureFullPage / captureFullPageInternal have before the loop
StartedCapture(impl, format, pg, requested) ==
    LET ui == hideAnnotedUI(pg.vis)
        vis1 == hide(pg.vis, AnnotedUI)
        sidebars == hiddenBy(vis1, Sidebars)
    IN  [pc |-> "tile", impl |-> impl, format |-> format,
         pageWidth |-> pg.pageWidth, pageHeight |-> pg.pageHeight,
         viewportWidth |-> pg.innerWidth, viewportHeight |-> pg.innerHeight,
         slicesX |-> Ceil(pg.pageWidth, pg.innerWidth),
         slicesY |-> Ceil(pg.pageHeight, pg.innerHeight),
         x |-> 0, y |-> 0, slices |-> << >>, image |-> << >>,
         hiddenAnnotedUI |-> ui, hiddenSidebars |-> sidebars,
         hiddenStickyElements |-> {},
         originalScrollbar |-> pg.scrollbar,
         firstCaptureBackground |-> "", firstCaptureOverlayState |-> << >>,
         overlayState |-> << >>, originalBackground |-> "",
         before |-> Styles(pg), tileState |-> << >>,
         uiBefore |-> pg.vis,
         originalScroll |-> pg.scroll, requested |-> requested,
         response |-> << >>, result |-> << >>, downloads |-> << >>,
         alerted |-> FALSE, pdfFailed |-> FALSE]

\* the Capture button of the full-page modal
StartModal(format) ==
    /\ Ready /\ Idle
    /\ CaptureIdle
    /\ cap' = StartedCapture("modal", format, page,
                             [scroll |-> page.scroll, vis |-> page.vis])
    /\ page' = hideScrollbar(
                   [page EXCEPT !.vis = hide(hide(@, AnnotedUI), Sidebars)])
    /\ UNCHANGED <<bridge, editorVars, otherVars>>

\* a loop that takes every tile of the first row for the first one
isFirstSliceMutRow(x, y) == y = 0

isFirstSlice(x, y) == y = 0 /\ x = 0

\* one turn of the loop up to the captureVisibleTab request: scroll to the
\* tile; for the first tile show the sticky elements, detach the overlay and
\* the canvas and make the background white; for the others hide the sticky
\* elements. The loop of captureFullPageInternal keeps what
\* waitForFirstCaptureSettling returns, and assigns the overlay state to the
\* firstCaptureOverlayState it declares inside the try block; the loop of
\* captureFullPage reads nothing of it again
\* the scroll position and the visibilities of a page
TileState(pg) == <<[scroll |-> pg.scroll, vis |-> pg.vis]>>

tileRequest(c, pg) ==
    LET scrollX == Min2(c.x * c.viewportWidth, c.pageWidth - c.viewportWidth)
        scrollY == Min2(c.y * c.viewportHeight,
                        c.pageHeight - c.viewportHeight)
        p1 == scrollTo(pg, scrollX, scrollY)
        first == waitForFirstCaptureSettling(
                     [p1 EXCEPT !.vis = restoreElementsAfterCapture(
                                          @, c.hiddenStickyElements)])
        hidden == [p1 EXCEPT !.vis = hide(@, StickyFixed)]
    IN  IF isFirstSlice(c.x, c.y)
        THEN [page |-> first,
              cap |-> IF c.impl = "internal"
                      THEN [c EXCEPT
                               !.pc = "await", !.hiddenStickyElements = {},
                               !.tileState = TileState(first),
                               !.overlayState =
                                   <<[overlayDisplay |-> pg.overlayDisplay,
                                      canvasDisplay |-> pg.canvasDisplay]>>,
                               !.originalBackground = pg.background,
                               !.firstCaptureBackground = pg.background]
                      ELSE [c EXCEPT !.pc = "await",
                                     !.tileState = TileState(first),
                                     !.hiddenStickyElements = {}]]
        ELSE IF c.hiddenStickyElements = {}
        THEN [page |-> hidden,
              cap |-> [c EXCEPT !.pc = "await",
                           !.tileState = TileState(hidden),
                           !.hiddenStickyElements =
                               hiddenBy(pg.vis, StickyFixed)]]
        ELSE [page |-> p1,
              cap |-> [c EXCEPT !.pc = "await", !.tileState = TileState(p1)]]

TileRequest ==
    /\ cap.pc = "tile" /\ cap.impl \in {"modal", "internal"}
    /\ \E r \in {tileRequest(cap, page)} : cap' = r.cap /\ page' = r.page
    /\ UNCHANGED <<bridge, editorVars, otherVars>>

\* stitchImages: the rectangle of the canvas each tile is drawn into
stitchImages(slices, slicesX, slicesY, viewportWidth, viewportHeight, pageWidth, pageHeight) ==
    [i \in 1..Len(slices) |->
        LET x == (i - 1) % slicesX
            y == (i - 1) \div slicesX
            destX == x * viewportWidth
            destY == y * viewportHeight
        IN  [x |-> x, y |-> y, destX |-> destX, destY |-> destY,
             width |-> IF x = slicesX - 1 THEN pageWidth - destX
                       ELSE viewportWidth,
             height |-> IF y = slicesY - 1 THEN pageHeight - destY
                        ELSE viewportHeight]]

\* what the finally block of both functions restores: the extension's own
\* elements and the sidebars
finallyRestore(vis, c) ==
    restoreElementsAfterCapture(
        restoreElementsAfterCapture(vis, c.hiddenAnnotedUI), c.hiddenSidebars)

\* captureViewport() up to its request: the extension's elements are hidden
StartedViewport(c, vis) ==
    [c EXCEPT !.pc = "await", !.impl = "viewport",
              !.hiddenAnnotedUI = hideAnnotedUI(vis), !.uiBefore = vis]

\* loops that go down the columns
nextSliceMutColumns(c) ==
    IF c.y = c.slicesY - 1 THEN [x |-> c.x + 1, y |-> 0]
    ELSE [x |-> c.x, y |-> c.y + 1]

\* for (y ...) for (x ...): the indices of the next turn of the loops
nextSlice(c) ==
    IF c.x = c.slicesX - 1 THEN [x |-> 0, y |-> c.y + 1]
    ELSE [x |-> c.x + 1, y |-> c.y]

\* what the finally block of both functions restores besides the elements:
\* the overlay when the outer firstCaptureOverlayState is set, the background
\* when the outer firstCaptureBackground is not "", the scrollbar
finallyStyles(pg, c) ==
    LET p1 == IF c.firstCaptureOverlayState # << >>
              THEN restoreOverlayAfterFirstCapture(
                       pg, c.firstCaptureOverlayState[1])
              ELSE pg
        p2 == IF c.firstCaptureBackground # ""
              THEN restoreBackground(p1, c.firstCaptureBackground)
              ELSE p1
    IN  [p2 EXCEPT !.scrollbar = c.originalScrollbar]

\* the callback of the captureVisibleTab request of a tile. After its first
\* tile captureFullPageInternal restores the overlay and the background.
\* When the request failed, captureFullPage alerts and calls
\* captureViewport() in its catch block, then both run their finally block;
\* the listener reports the error
tileCallback(c, pg) ==
    LET r == c.response[1]
        last == c.x = c.slicesX - 1 /\ c.y = c.slicesY - 1
        c1 == [c EXCEPT !.response = << >>, !.overlayState = << >>,
                        !.originalBackground = "", !.tileState = << >>]
    IN  IF Has(r, "dataUrl")
        THEN [cap |-> [c1 EXCEPT
                  !.slices = Append(@, r.dataUrl),
                  !.x = nextSlice(c).x,
                  !.y = nextSlice(c).y,
                  !.pc = IF last THEN "captured" ELSE "tile"],
              page |-> IF c.overlayState # << >>
                       THEN restoreBackground(
                                restoreOverlayAfterFirstCapture(
                                    pg, c.overlayState[1]),
                                c.originalBackground)
                       ELSE pg]
        ELSE IF c.impl = "modal"
        THEN [cap |-> [StartedViewport(c1, pg.vis) EXCEPT !.alerted = TRUE],
              page |-> [finallyStyles(pg, c) EXCEPT !.vis =
                           finallyRestore(hide(@, AnnotedUI), c)]]
        ELSE [cap |-> [c1 EXCEPT !.pc = "reported",
                                 !.result = <<[error |-> r.error]>>],
              page |-> [finallyStyles(pg, c) EXCEPT !.vis =
                           finallyRestore(@, c)]]

TileCallback ==
    /\ cap.pc = "answered" /\ cap.impl \in {"modal", "internal"}
    /\ \E r \in {tileCallback(cap, page)} : cap' = r.cap /\ page' = r.page
    /\ UNCHANGED <<bridge, editorVars, otherVars>>

\* exportAsPDF: what is downloaded; when jsPDF throws, the PNG is
exportAsPDF(pdfOk) ==
    IF pdfOk THEN <<[format |-> "pdf", image |-> "fullpage"]>>
    ELSE <<[format |-> "png", image |-> "fullpage"]>>

\* the page after the loop and the finally block: the sticky elements and
\* the sidebars are restored, the window is scrolled back
afterLoop(c, pg) ==
    LET vis1 == restoreElementsAfterCapture(pg.vis, c.hiddenStickyElements)
        vis2 == restoreElementsAfterCapture(vis1, c.hiddenSidebars)
    IN  scrollTo([finallyStyles(pg, c) EXCEPT !.vis = finallyRestore(vis2, c)],
                 c.originalScroll.x, c.originalScroll.y)

\* after the loop: the sticky elements and the sidebars are restored, the
\* window is scrolled back, the tiles are stitched; the modal's capture
\* exports the image, the listener's capture reports it
FinishCapture(pdfOk) ==
    /\ cap.pc = "captured" /\ cap.impl \in {"modal", "internal"}
    /\ (cap.impl = "modal" /\ cap.format = "pdf") \/ pdfOk
    /\ LET pg == afterLoop(cap, page)
           c1 == [cap EXCEPT !.image =
                      stitchImages(cap.slices, cap.slicesX, cap.slicesY,
                                   cap.viewportWidth, cap.viewportHeight,
                                   cap.pageWidth, cap.pageHeight),
                             !.pdfFailed = ~pdfOk]
       IN  /\ page' = pg
           /\ cap' = IF cap.impl = "modal"
                     THEN [c1 EXCEPT !.pc = "done",
                              !.downloads =
                                  IF cap.format = "pdf" THEN exportAsPDF(pdfOk)
                                  ELSE <<[format |-> "png",
                                          image |-> "fullpage"]>>]
                     ELSE [c1 EXCEPT !.pc = "reported",
                              !.result = <<[screenshotData |-> "fullpage",
                                            isPDF |-> FALSE]>>]
    /\ UNCHANGED <<bridge, editorVars, otherVars>>

\* captureViewport() from the toolbar
StartViewport ==
    /\ Ready /\ Idle
    /\ CaptureIdle
    /\ cap' = [StartedCapture("viewport", "png", page,
                              [scroll |-> page.scroll, vis |-> page.vis])
                   EXCEPT !.pc = "await", !.hiddenSidebars = {}]
    /\ page' = [page EXCEPT !.vis = hide(@, AnnotedUI)]
    /\ UNCHANGED <<bridge, editorVars, otherVars>>

\* the request of captureViewport gets no answer: the callback runs with
\* chrome.runtime.lastError set and no response
ViewportMessagingError ==
    /\ cap.pc = "await" /\ cap.impl = "viewport"
    /\ cap' = [cap EXCEPT !.pc = "answered",
                   !.response = <<[lastError |-> "port closed"]>>]
    /\ UNCHANGED <<page, bridge, editorVars, otherVars>>

\* a callback that looks at the error before it restores the elements
ViewportCallbackMutErrorFirst ==
    /\ cap.pc = "answered" /\ cap.impl = "viewport"
    /\ page' = IF Has(cap.response[1], "dataUrl")
               THEN [page EXCEPT !.vis =
                        restoreElementsAfterCapture(@, cap.hiddenAnnotedUI)]
               ELSE page
    /\ cap' = [cap EXCEPT !.pc = "done", !.response = << >>,
                   !.downloads =
                       IF Has(cap.response[1], "dataUrl")
                       THEN <<[format |-> "png", image |-> "viewport"]>>
                       ELSE << >>]
    /\ UNCHANGED <<bridge, editorVars, otherVars>>

\* the callback of captureViewport's request
ViewportCallback ==
    /\ cap.pc = "answered" /\ cap.impl = "viewport"
    /\ page' = [page EXCEPT !.vis =
                   restoreElementsAfterCapture(@, cap.hiddenAnnotedUI)]
    /\ cap' = [cap EXCEPT !.pc = "done", !.response = << >>,
                   !.downloads =
                       IF Has(cap.response[1], "dataUrl")
                       THEN <<[format |-> "png", image |-> "viewport"]>>
                       ELSE << >>]
    /\ UNCHANGED <<bridge, editorVars, otherVars>>

\* the capture is over and its outcome was seen
CaptureDone ==
    /\ cap.pc = "done"
    /\ bridge.pc = "idle"
    /\ cap' = NoCapture
    /\ UNCHANGED <<page, bridge, editorVars, otherVars>>

---------------------------------------------------------------------------
(* The captureFullPage listener of src/entrypoints/content.tsx: one column  *)
(* of tiles, a PDF at the end                                               *)

\* the listener up to its loop: the scroll position is saved, the window is
\* scrolled to the top, every fixed or sticky element is listed with its
\* inline visibility
StartedTsx(pg, requested) ==
    [pc |-> "tile", impl |-> "tsx", format |-> "pdf",
     pageWidth |-> pg.pageWidth, pageHeight |-> pg.pageHeight,
     viewportWidth |-> pg.innerWidth, viewportHeight |-> pg.innerHeight,
     slicesX |-> 1, slicesY |-> Ceil(pg.pageHeight, pg.innerHeight),
     x |-> 0, y |-> 0, slices |-> << >>, image |-> << >>,
     hiddenAnnotedUI |-> {}, hiddenSidebars |-> {},
     hiddenStickyElements |->
         {[element |-> e, originalVisibility |-> pg.vis[e]] :
             e \in StickyFixed},
     before |-> Styles(pg),
     originalScroll |-> pg.scroll, requested |-> requested,
     response |-> << >>, result |-> << >>, downloads |-> << >>,
     alerted |-> FALSE, pdfFailed |-> FALSE]

\* the scroll position of tile i: the last tile is aligned to the bottom
finalScrollY(c, i) ==
    IF i = c.slicesY - 1
    THEN Max2(0, c.pageHeight - c.viewportHeight)
    ELSE i * c.viewportHeight

\* showFixedElements: element.style.visibility = ''
showFixedElements(vis) ==
    [e \in Elements |-> IF e \in StickyFixed THEN "" ELSE vis[e]]

\* one turn of the loop up to the captureVisibleTab request
TsxTileRequest ==
    /\ cap.pc = "tile" /\ cap.impl = "tsx"
    /\ LET pg == scrollTo(page, 0, finalScrollY(cap, cap.y))
       IN  page' = [pg EXCEPT !.vis = IF finalScrollY(cap, cap.y) > 0
                                      THEN hide(@, StickyFixed)
                                      ELSE showFixedElements(@)]
    /\ cap' = [cap EXCEPT !.pc = "await"]
    /\ UNCHANGED <<bridge, editorVars, otherVars>>

\* the rectangles the screenshots are drawn into: each one at its scroll
\* position, as large as the viewport
stitchTsx(c) ==
    [i \in 1..Len(c.slices) |->
        [x |-> 0, y |-> c.slices[i].y,
         destX |-> 0, destY |-> c.slices[i].scroll.y,
         width |-> c.viewportWidth, height |-> c.viewportHeight]]

\* the callback of the request, and what follows the last tile: the fixed
\* elements get their styles back, the screenshots are drawn, the window is
\* scrolled back and the visibility of the fixed elements is cleared
TsxTileCallback ==
    /\ cap.pc = "answered" /\ cap.impl = "tsx"
    /\ LET r == cap.response[1]
           last == cap.y = cap.slicesY - 1
           c1 == [cap EXCEPT !.response = << >>]
           hidden == IF finalScrollY(cap, cap.y) = 0
                     THEN hide(page.vis, StickyFixed) ELSE page.vis
       IN  IF ~Has(r, "dataUrl")
           \* catch (error)
           THEN /\ page' = [scrollTo(page, cap.originalScroll.x,
                                     cap.originalScroll.y) EXCEPT !.vis =
                               restoreElementsAfterCapture(
                                   @, cap.hiddenStickyElements)]
                /\ cap' = [c1 EXCEPT !.pc = "reported",
                                     !.result = <<[error |-> r.error]>>]
           ELSE IF ~last
           THEN /\ page' = [page EXCEPT !.vis = hidden]
                /\ cap' = [c1 EXCEPT !.slices = Append(@, r.dataUrl),
                                     !.y = @ + 1, !.pc = "tile"]
           ELSE /\ page' = [scrollTo(page, cap.originalScroll.x,
                                     cap.originalScroll.y) EXCEPT !.vis =
                               showFixedElements(@)]
                /\ cap' = [c1 EXCEPT !.slices = Append(@, r.dataUrl),
                                     !.y = @ + 1, !.pc = "captured"]
    /\ UNCHANGED <<bridge, editorVars, otherVars>>

\* the PDF is generated and the result reported, or the error is
TsxFinish(pdfOk) ==
    /\ cap.pc = "captured" /\ cap.impl = "tsx"
    /\ cap' = [cap EXCEPT
           !.pc = "reported",
           !.image = stitchTsx(cap),
           !.pdfFailed = ~pdfOk,
           !.result = IF pdfOk
                      THEN <<[screenshotData |-> "fullpage", isPDF |-> TRUE]>>
                      ELSE <<[error |-> "PDF generation failed"]>>]
    /\ UNCHANGED <<page, bridge, editorVars, otherVars>>

---------------------------------------------------------------------------
(* The background script (src/entrypoints/background.ts)                    *)
(*   bridge.did      the Chrome calls the handler of the last message made  *)
(*   bridge.answer   << >> or <<the object passed to sendResponse>>         *)
(*   bridge.promise  the promise of captureFullPage(tabId)                  *)
(*   bridge.timer    the 60 s timer of captureFullPage(tabId)               *)
(*   bridge.denied   chrome.tabs.captureVisibleTab failed in the handler    *)
(*   bridge.reported the fullPageCaptureResult message resultListener got   *)

\* what a handler that answers at once leaves
Handled(action, hasTab, did, answer) ==
    [IdleBridge EXCEPT !.pc = "answered",
                       !.action = action, !.hasTab = hasTab, !.did = did,
                       !.answer = <<answer>>, !.answers = 1,
                       !.denied = did = {"tabCapture"}]

\* captureScreenshot(tabId) that captures without a tab id
captureScreenshotMutNoCheck(hasTab, granted) ==
    IF ~granted
    THEN [ok |-> FALSE, did |-> {"tabCapture"}, error |-> "denied"]
    ELSE [ok |-> TRUE, did |-> {"tabCapture", "contentMessage"},
          error |-> ""]

\* captureScreenshot(tabId): the tab capture, then the getCanvasData message
\* whose failure is ignored
captureScreenshot(hasTab, granted) ==
    IF ~hasTab
    THEN [ok |-> FALSE, did |-> {}, error |-> "No tab ID"]
    ELSE IF ~granted
    THEN [ok |-> FALSE, did |-> {"tabCapture"}, error |-> "denied"]
    ELSE [ok |-> TRUE, did |-> {"tabCapture", "contentMessage"},
          error |-> ""]

\* the visible part of the tab as chrome.tabs.captureVisibleTab sees it
Snapshot(c, pg) == [x |-> c.x, y |-> c.y, scroll |-> pg.scroll, vis |-> pg.vis]

\* message "captureVisibleTab": from the content script while it waits for a
\* tile or the viewport, or from a page of the extension, which has no tab
OnCaptureVisibleTab(hasTab, granted) ==
    IF hasTab
    THEN /\ cap.pc = "await"
         /\ cap' = [cap EXCEPT !.pc = "answered", !.response =
                       IF granted THEN <<[dataUrl |-> Snapshot(cap, page)]>>
                       ELSE <<[error |-> "denied"]>>]
         /\ UNCHANGED <<page, bridge, editorVars, otherVars>>
    ELSE /\ CaptureIdle
         /\ granted
         /\ bridge' = Handled("captureVisibleTab", FALSE, {},
                              [error |-> "No tab ID"])
         /\ UNCHANGED <<page, cap, editorVars, otherVars>>

\* message "captureScreenshot"
OnCaptureScreenshot(hasTab, granted) ==
    /\ CaptureIdle
    /\ hasTab \/ granted
    /\ LET r == captureScreenshot(hasTab, granted)
       IN  bridge' = IF r.ok
                     THEN Handled("captureScreenshot", hasTab,
                                  r.did \cup {"storage"}, [success |-> TRUE])
                     ELSE Handled("captureScreenshot", hasTab, r.did,
                                  [success |-> FALSE, error |-> r.error])
    /\ UNCHANGED <<page, cap, editorVars, otherVars>>

\* message "downloadScreenshot"
OnDownloadScreenshot(hasTab, granted, saved) ==
    /\ CaptureIdle
    /\ hasTab \/ (granted /\ saved)
    /\ granted \/ saved
    /\ LET r == captureScreenshot(hasTab, granted)
       IN  bridge' =
             IF ~hasTab
             THEN Handled("downloadScreenshot", FALSE, {},
                          [success |-> FALSE, error |-> "No tab ID available"])
             ELSE IF ~r.ok
             THEN Handled("downloadScreenshot", TRUE, r.did,
                          [success |-> FALSE, error |-> r.error])
             ELSE IF ~saved
             THEN Handled("downloadScreenshot", TRUE,
                          r.did \cup {"download"},
                          [success |-> FALSE, error |-> "download"])
             ELSE Handled("downloadScreenshot", TRUE,
                          r.did \cup {"download"}, [success |-> TRUE])
    /\ UNCHANGED <<page, cap, editorVars, otherVars>>

\* a handler that answers at every resolve and reject, also those of a
\* promise that is settled
SettleMutAgain(b, outcome, error) ==
    IF outcome = "error"
    THEN [b EXCEPT !.promise = IF @ = "pending" THEN "rejected" ELSE @,
                   !.pc = "answered",
                   !.outcome = IF b.promise = "pending" THEN "error" ELSE @,
                   !.answer = <<[success |-> FALSE, error |-> error]>>,
                   !.answers = @ + 1]
    ELSE [b EXCEPT !.promise = IF @ = "pending" THEN "resolved" ELSE @,
                   !.pc = "answered",
                   !.outcome = IF b.promise = "pending" THEN outcome ELSE @,
                   !.answer = <<[success |-> TRUE]>>,
                   !.answers = @ + 1]

\* the promise of captureFullPage(tabId) is settled and downloadFullPage
\* answers: sendResponse is called in the then or the catch of the promise;
\* a settled promise stays as it is
Settle(b, outcome, error) ==
    IF b.promise # "pending" THEN b
    ELSE IF outcome = "error"
    THEN [b EXCEPT !.promise = "rejected", !.pc = "answered",
                   !.outcome = "error",
                   !.answer = <<[success |-> FALSE, error |-> error]>>,
                   !.answers = @ + 1]
    ELSE [b EXCEPT !.promise = "resolved", !.pc = "answered",
                   !.outcome = outcome,
                   !.answer = <<[success |-> TRUE]>>,
                   !.answers = @ + 1]

\* "Fallback to regular screenshot"
Fallback(b, granted) ==
    LET r == captureScreenshot(TRUE, granted)
        b1 == IF b.promise # "pending" THEN [b EXCEPT !.did = @ \cup r.did]
              ELSE [b EXCEPT !.did = @ \cup r.did, !.denied = ~r.ok]
    IN  Settle(b1, IF r.ok THEN "viewport" ELSE "error", r.error)

\* message "downloadFullPage": without a tab id the answer is an error; with
\* one, captureFullPage(tabId) measures the page with an injected script
\* that scrolls to the bottom and back to the top, then sends captureFullPage
\* to the content script, listens for the result and starts the timer
OnDownloadFullPage(hasTab, measured) ==
    /\ CaptureIdle
    /\ hasTab \/ measured
    /\ IF ~hasTab
       THEN /\ bridge' = Handled("downloadFullPage", FALSE, {},
                                 [success |-> FALSE,
                                  error |-> "No tab ID available"])
            /\ page' = page
       ELSE IF ~measured
       THEN /\ bridge' = Handled("downloadFullPage", TRUE, {"executeScript"},
                                 [success |-> FALSE, error |-> "script"])
            /\ page' = page
       ELSE /\ bridge' = [IdleBridge EXCEPT
                             !.pc = "waiting", !.action = "downloadFullPage",
                             !.hasTab = TRUE,
                             !.did = {"executeScript", "contentMessage"},
                             !.sent = TRUE, !.listener = TRUE,
                             !.timer = "armed", !.promise = "pending",
                             !.requested = <<[scroll |-> page.scroll,
                                              vis |-> page.vis]>>]
            /\ page' = scrollTo(scrollTo(page, 0, page.pageHeight), 0, 0)
    /\ UNCHANGED <<cap, editorVars, otherVars>>

\* the content script gets the captureFullPage message: the listener of
\* part_001 runs captureFullPageInternal, the one of content.tsx its own loop
DeliverCaptureFullPage(impl) ==
    /\ bridge.sent
    /\ cap.pc = "idle"
    /\ bridge' = [bridge EXCEPT !.sent = FALSE]
    /\ IF impl = "internal"
       THEN /\ cap' = StartedCapture("internal", "png", page,
                                     bridge.requested[1])
            /\ page' = hideScrollbar(
                   [page EXCEPT !.vis = hide(hide(@, AnnotedUI), Sidebars)])
       ELSE /\ cap' = StartedTsx(page, bridge.requested[1])
            /\ page' = scrollTo(page, 0, 0)
    /\ UNCHANGED <<editorVars, otherVars>>

\* no content script gets the message: chrome.runtime.lastError is set
SendFailed(granted) ==
    /\ bridge.sent
    /\ cap.pc = "idle"
    /\ bridge' = Fallback([bridge EXCEPT !.sent = FALSE, !.listener = FALSE],
                          granted)
    /\ UNCHANGED <<page, cap, editorVars, otherVars>>

\* message "fullPageCaptureResult": resultListener when it is still added
ResultListener(granted) ==
    /\ cap.pc = "reported"
    /\ (bridge.listener /\ ~Has(cap.result[1], "screenshotData")) \/ granted
    /\ cap' = [cap EXCEPT !.pc = "done"]
    /\ LET r == cap.result[1]
           b1 == [bridge EXCEPT !.listener = FALSE, !.reported = <<r>>]
       IN  bridge' = IF ~bridge.listener THEN bridge
                     ELSE IF Has(r, "screenshotData")
                     THEN Settle(b1, IF r.isPDF THEN "pdf" ELSE "fullpage", "")
                     ELSE Fallback(b1, granted)
    /\ UNCHANGED <<page, editorVars, otherVars>>

\* a timer that only removes the listener
TimeoutMutNoFallback(granted) ==
    /\ bridge.timer = "armed"
    /\ granted
    /\ bridge' = [bridge EXCEPT !.timer = "fired", !.listener = FALSE]
    /\ UNCHANGED <<page, cap, editorVars, otherVars>>

\* the 60 s timer fires; nothing clears it when the promise is settled
Timeout(granted) ==
    /\ bridge.timer = "armed"
    /\ bridge' = Fallback([bridge EXCEPT !.timer = "fired",
                                         !.listener = FALSE], granted)
    /\ UNCHANGED <<page, cap, editorVars, otherVars>>

\* the tab is closed or loads another document while the content script
\* captures for the background script
TabGone ==
    /\ cap.pc \in {"tile", "await", "answered", "captured"}
    /\ cap.impl \in {"internal", "tsx"}
    /\ cap' = NoCapture
    /\ page' = DefaultPage
    /\ UNCHANGED <<bridge, editorVars, otherVars>>

\* the answer was seen, the timer and the content script's capture are over
BridgeDone ==
    /\ bridge.pc = "answered"
    /\ bridge.timer # "armed"
    /\ ~bridge.sent
    /\ cap.pc \in {"idle", "done"}
    /\ bridge' = IdleBridge
    /\ cap' = NoCapture
    /\ UNCHANGED <<page, editorVars, otherVars>>

---------------------------------------------------------------------------
(* The handlers of the AnnotationOverlay component *)

\* a keydown event on the document
AppKeyDown(target, key, mod, shiftKey, ok) ==
    /\ \E a \in {handleKeyDown(app, target, key, mod, shiftKey, ok)} :
           /\ Len(a.outbox) <= MaxOutbox
           /\ app' = [a EXCEPT !.tick = 1 - @]
    /\ UNCHANGED <<editorVars, captureVars, localStorage, pointerDown, cap2, requests>>

\* handleMouseUp at the end of a shape drawn from x: what undo has hidden is
\* dropped, the shape is pushed, everything is shown and saved
AppMouseUp(x, ok) ==
    /\ app.activeTool \in ShapeTools
    /\ LET kept == IF app.historyIndex # << >>
                        /\ app.historyIndex[1] < Len(app.drawingHistory)
                   THEN SubSeq(app.drawingHistory, 1, app.historyIndex[1])
                   ELSE app.drawingHistory
           item == [type |-> "shape", tool |-> app.activeTool,
                    start |-> Pt(x), end |-> Pt(x)]
       IN  /\ Len(kept) < MaxHist
           /\ app' = render(saveToLocalStorage(
                         [app EXCEPT !.drawingHistory = Append(kept, item),
                                     !.historyIndex = << >>], ok))
    /\ UNCHANGED <<editorVars, captureVars, localStorage, pointerDown, cap2, requests>>

\* handleMouseDown on the canvas with the text tool: the text input opens
AppTextToolDown(x) ==
    /\ app.activeTool = "text"
    /\ app' = render([app EXCEPT !.textInput =
                         <<[x |-> x, editingIndex |-> << >>]>>])
    /\ UNCHANGED <<editorVars, captureVars, localStorage, pointerDown, cap2, requests>>

\* handleMouseDown on the canvas with the eraser
AppEraserDown(x, ok) ==
    /\ app.activeTool = "eraser"
    /\ \E i \in {findAnnotationAtPoint(app, Pt(x))} :
           app' = IF i # 0 THEN eraseAt(app, i, ok) ELSE app
    /\ UNCHANGED <<editorVars, captureVars, localStorage, pointerDown, cap2, requests>>

\* onClick of the text element the last render made for the item at i: the
\* eraser removes what is at i now, the text tool opens the input on it
AppTextClick(i, ok) ==
    /\ i \in app.rendered
    /\ app' = IF app.activeTool = "eraser" THEN eraseAt(app, i, ok)
              ELSE IF /\ app.activeTool = "text"
                      /\ i <= Len(app.drawingHistory)
                      /\ app.drawingHistory[i].type = "text"
                      /\ app.drawingHistory[i].text # ""
              THEN render([app EXCEPT !.textInput =
                              <<[x |-> app.drawingHistory[i].start.x,
                                 editingIndex |-> <<i>>]>>])
              ELSE app
    /\ UNCHANGED <<editorVars, captureVars, localStorage, pointerDown, cap2, requests>>

\* onClick of the Save button of the text input; text is the trimmed value
AppSaveText(text, ok) ==
    /\ app.textInput # << >>
    /\ \E a \in {IF text # "" THEN handleTextSubmit(app, text, ok)
                  ELSE saveBlank(app, ok)} :
           /\ Len(a.drawingHistory) <= MaxHist
           /\ app' = a
    /\ UNCHANGED <<editorVars, captureVars, localStorage, pointerDown, cap2, requests>>

\* another state of the component gets a new value (the colour, the shape
\* mode, the pen width): the component renders again
AppRender ==
    /\ app.rendered # TextElements(app)
    /\ app' = render(app)
    /\ UNCHANGED <<editorVars, captureVars, localStorage, pointerDown, cap2, requests>>

\* the callback of chrome.runtime.sendMessage: the response has come
AppResponse ==
    /\ app.outbox # << >>
    /\ app' = [app EXCEPT !.outbox = Tail(@)]
    /\ UNCHANGED <<editorVars, captureVars, localStorage, pointerDown, cap2, requests>>

---------------------------------------------------------------------------
(* A second captureFullPage message while a full-page capture of part_001  *)
(* runs: the listener starts captureFullPageInternal again, and the two     *)
(* calls take turns wherever one of them awaits                             *)

\* the listener gets captureFullPage while a capture is between two tiles or
\* waits for one
SecondCaptureFullPage ==
    /\ cap.pc \in {"tile", "await", "answered"}
    /\ cap.impl \in {"modal", "internal"}
    /\ cap2.pc = "idle"
    /\ cap2' = StartedCapture("internal", "png", page,
                              [scroll |-> page.scroll, vis |-> page.vis])
    /\ page' = hideScrollbar(
                   [page EXCEPT !.vis = hide(hide(@, AnnotedUI), Sidebars)])
    /\ UNCHANGED <<cap, bridge, editorVars, app, localStorage, pointerDown, requests>>

\* one turn of the second call's loop up to its request
SecondTileRequest ==
    /\ cap2.pc = "tile"
    /\ \E r \in {tileRequest(cap2, page)} : cap2' = r.cap /\ page' = r.page
    /\ UNCHANGED <<cap, bridge, editorVars, app, localStorage, pointerDown, requests>>

\* message "captureVisibleTab" of the second call
SecondCaptureVisibleTab(granted) ==
    /\ cap2.pc = "await"
    /\ cap2' = [cap2 EXCEPT !.pc = "answered", !.response =
                    IF granted THEN <<[dataUrl |-> Snapshot(cap2, page)]>>
                    ELSE <<[error |-> "denied"]>>]
    /\ UNCHANGED <<page, cap, bridge, editorVars, app, localStorage, pointerDown, requests>>

\* the callback of the second call's request
SecondTileCallback ==
    /\ cap2.pc = "answered"
    /\ \E r \in {tileCallback(cap2, page)} : cap2' = r.cap /\ page' = r.page
    /\ UNCHANGED <<cap, bridge, editorVars, app, localStorage, pointerDown, requests>>

\* the second call after its loop
SecondFinish ==
    /\ cap2.pc = "captured"
    /\ page' = afterLoop(cap2, page)
    /\ cap2' = [cap2 EXCEPT !.pc = "reported",
                    !.image = stitchImages(cap2.slices, cap2.slicesX,
                                           cap2.slicesY, cap2.viewportWidth,
                                           cap2.viewportHeight,
                                           cap2.pageWidth, cap2.pageHeight),
                    !.result = <<[screenshotData |-> "fullpage",
                                  isPDF |-> FALSE]>>]
    /\ UNCHANGED <<cap, bridge, editorVars, app, localStorage, pointerDown, requests>>

\* the second call's fullPageCaptureResult message is sent
SecondReport ==
    /\ cap2.pc = "reported"
    /\ cap2' = NoCapture
    /\ UNCHANGED <<page, cap, bridge, editorVars, app, localStorage, pointerDown, requests>>

---------------------------------------------------------------------------
(* The background script with the full-page requests of several tabs *)

\* message "downloadFullPage" from tab t: captureFullPage(tabId) adds its
\* resultListener, sends captureFullPage to the tab, whose content script
\* starts captureFullPageInternal, and starts the timer
TabDownloadFullPage(t) ==
    /\ requests[t].promise = "none"
    /\ requests' = [requests EXCEPT ![t] =
           [NoRequest EXCEPT !.promise = "pending", !.listener = TRUE,
                             !.timer = "armed", !.content = "capturing"]]
    /\ UNCHANGED <<editorVars, captureVars, app, localStorage, pointerDown, cap2>>

\* the content script of tab t sends fullPageCaptureResult, with the image
\* of its page or with an error; chrome.runtime.onMessage calls every
\* listener that is added
TabFullPageCaptureResult(t, ok, granted) ==
    /\ requests[t].content = "capturing"
    /\ \E message \in
           {IF ok
            THEN [action |-> "fullPageCaptureResult",
                  screenshotData |-> [tab |-> t, image |-> "fullpage"],
                  isPDF |-> FALSE, granted |-> granted]
            ELSE [action |-> "fullPageCaptureResult", error |-> "capture",
                  granted |-> granted]} :
           requests' = [u \in Tabs |->
               [resultListener(requests[u], u, message) EXCEPT
                   !.content = IF u = t THEN "idle" ELSE @]]
    /\ UNCHANGED <<editorVars, captureVars, app, localStorage, pointerDown, cap2>>

\* the 60 s timer of the request of tab t fires
TabTimeout(t, granted) ==
    /\ requests[t].timer = "armed"
    /\ requests' = [requests EXCEPT ![t] =
           fallback([@ EXCEPT !.timer = "fired", !.listener = FALSE],
                    t, granted)]
    /\ UNCHANGED <<editorVars, captureVars, app, localStorage, pointerDown, cap2>>

\* downloadFullPage(tabId) has answered and nothing of the request is left
TabRequestDone(t) ==
    /\ requests[t].promise \in {"resolved", "rejected"}
    /\ requests[t].timer = "fired"
    /\ requests[t].content = "idle"
    /\ requests' = [requests EXCEPT ![t] = NoRequest]
    /\ UNCHANGED <<editorVars, captureVars, app, localStorage, pointerDown, cap2>>

---------------------------------------------------------------------------
(* What a pointer-down selects *)

\* handleMouseDown at p with the eraser, which calls hitTestAnnotation, or
\* with the move tool, which has its own loops, when the stores hold texts
\* and anns
PointerDownSelects(tool, texts, anns, p) ==
    /\ pointerDown' =
           [tool |-> tool, texts |-> texts, anns |-> anns, p |-> p,
            result |-> IF tool = "eraser"
                       THEN hitTestAnnotation(texts, anns, p)
                       ELSE moveHitTest(texts, anns, p)]
    /\ UNCHANGED <<editorVars, captureVars, app, localStorage, cap2, requests>>

---------------------------------------------------------------------------
(* Sessions saved and loaded at an address *)

\* saveSession() / saveToLocalStorage() on the page at href; setItem throws
\* when ok is FALSE and the catch logs it
SaveAt(engine, href, data, ok) ==
    /\ Len(localStorage.writes) < MaxWrites
    /\ LET value == IF engine = "annoted"
                    THEN [pageUrl |-> splitFirst(splitFirst(href, "#"), "?"),
                          actions |-> data]
                    ELSE [drawingHistory |-> data]
       IN  localStorage' =
              [entries |-> IF ok
                           THEN setItem(localStorage.entries,
                                        getStorageKey(engine, href), value)
                           ELSE localStorage.entries,
               writes |-> Append(localStorage.writes,
                                 [engine |-> engine, href |-> href,
                                  data |-> data, ok |-> ok]),
               read |-> << >>]
    /\ UNCHANGED <<editorVars, captureVars, app, pointerDown, cap2, requests>>

\* loadSession() / loadFromLocalStorage() on the page at href: the data of
\* the entry, << >> when there is none or, in loadSession, when its pageUrl
\* is not the normalized address
LoadAt(engine, href) ==
    /\ LET item == getItem(localStorage.entries, getStorageKey(engine, href))
           data == IF item = NoItem THEN << >>
                   ELSE IF engine = "annoted"
                   THEN IF splitFirst(splitFirst(href, "#"), "?")
                              = splitFirst(splitFirst(item[1].pageUrl, "#"), "?")
                        THEN <<item[1].actions>>
                        ELSE << >>
                   ELSE <<item[1].drawingHistory>>
       IN  localStorage' =
              [localStorage EXCEPT
                 !.read = <<[engine |-> engine, href |-> href,
                             data |-> data]>>]
    /\ UNCHANGED <<editorVars, captureVars, app, pointerDown, cap2, requests>>

---------------------------------------------------------------------------
(* Specifications.  Each one lets the user work with some of the tools, so  *)
(* that the reachable states can be enumerated; the handlers are the same.  *)

\* drawing: pen strokes and shapes, the eraser, clear-all, undo and redo
DrawTools == {"pen", "eraser"}

NextDraw ==
    \/ \E ok \in WriteOutcomes : Activate(ok)
    \/ \E t \in DrawTools, ok \in WriteOutcomes : SelectTool(t, ok)
    \/ \E ok \in WriteOutcomes : SelectShape(ok)
    \/ \E p \in MousePoints : DrawDown(p)
    \/ \E p \in MousePoints : MouseMove(p)
    \/ \E ok \in WriteOutcomes : MouseUp(ok)
    \/ \E p \in MousePoints, ok \in WriteOutcomes : EraserDown(p, ok)
    \/ \E ok \in WriteOutcomes : Undo(ok)
    \/ \E ok \in WriteOutcomes : Redo(ok)
    \/ \E ok \in WriteOutcomes : ClearAll(ok)

Spec == Init /\ [][NextDraw]_vars

\* text annotations: the text tool, the inputs, the eraser, clear-all, undo and
\* redo
TextTools == {"text", "eraser"}

NextText ==
    \/ \E ok \in WriteOutcomes : Activate(ok)
    \/ \E t \in TextTools, ok \in WriteOutcomes : SelectTool(t, ok)
    \/ \E p \in MousePoints, t \in 0..MaxClock, ok \in WriteOutcomes :
            TextDown(p, t, ok)
    \/ \E p \in MousePoints, ok \in WriteOutcomes : EraserDown(p, ok)
    \/ \E i \in 1..MaxLog : Focus(i)
    \/ \E v \in TextValues : Type(v)
    \/ \E ok \in WriteOutcomes : Blur(ok)
    \/ \E ok \in WriteOutcomes : Undo(ok)
    \/ \E ok \in WriteOutcomes : Redo(ok)
    \/ \E ok \in WriteOutcomes : ClearAll(ok)

SpecText == Init /\ [][NextText]_vars

\* the move tool on shapes and texts
NextMove ==
    \/ \E ok \in WriteOutcomes : Activate(ok)
    \/ \E t \in {"text", "move"}, ok \in WriteOutcomes : SelectTool(t, ok)
    \/ \E ok \in WriteOutcomes : SelectShape(ok)
    \/ \E p \in MousePoints : DrawDown(p)
    \/ \E t \in 0..MaxClock, ok \in WriteOutcomes : TextDown(Pt(0), t, ok)
    \/ \E p \in MousePoints : MoveDown(p)
    \/ \E p \in MousePoints : MouseMove(p)
    \/ \E ok \in WriteOutcomes : MouseUp(ok)
    \/ \E ok \in WriteOutcomes : Undo(ok)

SpecMove == Init /\ [][NextMove]_vars

\* sessions: activation, page loads, share links, damaged storage
NextSession ==
    \/ \E ok \in WriteOutcomes : Activate(ok)
    \/ Deactivate
    \/ Reload
    \/ \E ok \in WriteOutcomes : SelectTool("text", ok)
    \/ \E t \in 0..MaxClock, ok \in WriteOutcomes : TextDown(Pt(0), t, ok)
    \/ \E ok \in WriteOutcomes : Undo(ok)
    \/ \E ok \in WriteOutcomes : Redo(ok)
    \/ \E size \in SizeChoices : Share(size)
    \/ OpenShareLink(NoOthers)
    \/ \E h \in BadHashes : OpenBadLink(h)
    \/ \E d \in DamagedEntries(stored) : DamageStorage(d)

SpecSession == Init /\ [][NextSession]_vars

\* freehand strokes of the pen and the highlighter; mouseleave is bound to
\* handleMouseUp as mouseup is
NextStroke ==
    \/ Activate(TRUE)
    \/ \E t \in {"pen", "highlighter"} : SelectTool(t, TRUE)
    \/ \E p \in MousePoints : DrawDown(p)
    \/ \E p \in MousePoints : MouseMove(p)
    \/ MouseUp(TRUE)
    \/ Undo(TRUE)
    \/ Redo(TRUE)

SpecStroke == Init /\ [][NextStroke]_vars

\* captures: the page changes between captures, the toolbar and the modal
\* start captures in the content script, the background script handles the
\* messages of content scripts and of pages of the extension
NextCapture ==
    \/ Activate(TRUE)
    \/ \E W \in ViewW..MaxPage, H \in ViewH..MaxPage : PageLayout(W, H)
    \/ \E x \in 0..MaxPage, y \in 0..MaxPage : UserScroll(x, y)
    \/ \E v \in Visibilities : PageStyle("header", v)
    \/ \E b \in {"", "red"} : PageBackground(b)
    \/ \E format \in {"png", "pdf"} : StartModal(format)
    \/ TileRequest
    \/ TileCallback
    \/ \E pdfOk \in BOOLEAN : FinishCapture(pdfOk)
    \/ StartViewport
    \/ ViewportCallback
    \/ CaptureDone
    \/ TsxTileRequest
    \/ TsxTileCallback
    \/ \E pdfOk \in BOOLEAN : TsxFinish(pdfOk)
    \/ \E hasTab, granted \in BOOLEAN : OnCaptureVisibleTab(hasTab, granted)
    \/ \E hasTab, granted \in BOOLEAN : OnCaptureScreenshot(hasTab, granted)
    \/ \E hasTab, granted, saved \in BOOLEAN :
            OnDownloadScreenshot(hasTab, granted, saved)
    \/ \E hasTab, measured \in BOOLEAN : OnDownloadFullPage(hasTab, measured)
    \/ \E impl \in {"internal", "tsx"} : DeliverCaptureFullPage(impl)
    \/ \E granted \in BOOLEAN : SendFailed(granted)
    \/ \E granted \in BOOLEAN : ResultListener(granted)
    \/ \E granted \in BOOLEAN : Timeout(granted)
    \/ TabGone
    \/ BridgeDone

SpecCapture == Init /\ [][NextCapture]_vars

\* full-page captures on pages one viewport wide, with the scheduling the
\* browser gives: a timer that is armed fires, the background script's
\* captureVisibleTab handler runs and answers, and a content script that is
\* not unloaded goes on after each of its awaits
NextCaptureFair ==
    \/ Activate(TRUE)
    \/ \E H \in ViewH..MaxPage : PageLayout(ViewW, H)
    \/ \E format \in {"png", "pdf"} : StartModal(format)
    \/ TileRequest
    \/ TileCallback
    \/ \E pdfOk \in BOOLEAN : FinishCapture(pdfOk)
    \/ ViewportCallback
    \/ CaptureDone
    \/ TsxTileRequest
    \/ TsxTileCallback
    \/ \E pdfOk \in BOOLEAN : TsxFinish(pdfOk)
    \/ \E granted \in BOOLEAN : OnCaptureVisibleTab(TRUE, granted)
    \/ OnDownloadFullPage(TRUE, TRUE)
    \/ \E impl \in {"internal", "tsx"} : DeliverCaptureFullPage(impl)
    \/ \E granted \in BOOLEAN : SendFailed(granted)
    \/ \E granted \in BOOLEAN : ResultListener(granted)
    \/ \E granted \in BOOLEAN : Timeout(granted)
    \/ TabGone
    \/ BridgeDone

\* the steps of the content script between two awaits
ContentStep ==
    \/ TileRequest
    \/ TileCallback
    \/ \E pdfOk \in BOOLEAN : FinishCapture(pdfOk)
    \/ ViewportCallback

SpecCaptureFair ==
    /\ Init
    /\ [][NextCaptureFair]_vars
    /\ WF_vars(\E granted \in BOOLEAN : Timeout(granted))
    /\ WF_vars(\E granted \in BOOLEAN : OnCaptureVisibleTab(TRUE, granted))
    /\ WF_vars(ContentStep)

\* the same with viewport captures from the toolbar and requests that get
\* no answer
NextViewportFair ==
    \/ NextCaptureFair
    \/ StartViewport
    \/ ViewportMessagingError

SpecViewportFair ==
    /\ Init
    /\ [][NextViewportFair]_vars
    /\ WF_vars(\E granted \in BOOLEAN : Timeout(granted))
    /\ WF_vars(\E granted \in BOOLEAN : OnCaptureVisibleTab(TRUE, granted))
    /\ WF_vars(ContentStep)

\* the same with every message the background script handles
NextBridgeFair ==
    \/ NextCaptureFair
    \/ \E granted \in BOOLEAN : OnCaptureVisibleTab(FALSE, granted)
    \/ \E hasTab, granted \in BOOLEAN : OnCaptureScreenshot(hasTab, granted)
    \/ \E hasTab, granted, saved \in BOOLEAN :
            OnDownloadScreenshot(hasTab, granted, saved)
    \/ \E hasTab, measured \in BOOLEAN : OnDownloadFullPage(hasTab, measured)

SpecBridgeFair ==
    /\ Init
    /\ [][NextBridgeFair]_vars
    /\ WF_vars(\E granted \in BOOLEAN : Timeout(granted))
    /\ WF_vars(\E granted \in BOOLEAN : OnCaptureVisibleTab(TRUE, granted))
    /\ WF_vars(ContentStep)

\* two full-page captures in one tab
NextOverlap ==
    \/ Activate(TRUE)
    \/ \E H \in ViewH..MaxOverlapPage : PageLayout(ViewW, H)
    \/ StartModal("png")
    \/ TileRequest
    \/ OnCaptureVisibleTab(TRUE, TRUE)
    \/ TileCallback
    \/ FinishCapture(TRUE)
    \/ CaptureDone
    \/ SecondCaptureFullPage
    \/ SecondTileRequest
    \/ \E granted \in BOOLEAN : SecondCaptureVisibleTab(granted)
    \/ SecondTileCallback
    \/ SecondFinish
    \/ SecondReport

SpecOverlap == Init /\ [][NextOverlap]_vars

\* hit-testing of the eraser and the move tool
NextHit ==
    \E tool \in {"eraser", "move"}, texts \in HitTexts, anns \in HitStores,
       p \in MousePoints : PointerDownSelects(tool, texts, anns, p)

SpecHit == Init /\ [][NextHit]_vars

\* sessions saved and loaded at several addresses of one origin
NextStorage ==
    \/ \E engine \in {"annoted", "proofly"}, href \in Hrefs,
          data \in SessionData, ok \in BOOLEAN : SaveAt(engine, href, data, ok)
    \/ \E engine \in {"annoted", "proofly"}, href \in Hrefs :
          LoadAt(engine, href)

SpecStorage == Init /\ [][NextStorage]_vars

\* full-page requests of several tabs at the same time
NextTabs ==
    \/ \E t \in Tabs : TabDownloadFullPage(t)
    \/ \E t \in Tabs, ok \in BOOLEAN, granted \in [Tabs -> BOOLEAN] :
            TabFullPageCaptureResult(t, ok, granted)
    \/ \E t \in Tabs, granted \in BOOLEAN : TabTimeout(t, granted)
    \/ \E t \in Tabs : TabRequestDone(t)

SpecTabs == Init /\ [][NextTabs]_vars

\* the keyboard shortcuts of content.tsx
NextKeys ==
    \/ \E target \in KeyTargets, key \in Keys, mod, shiftKey, ok \in BOOLEAN :
            AppKeyDown(target, key, mod, shiftKey, ok)
    \/ \E x \in Xs, ok \in BOOLEAN : AppMouseUp(x, ok)
    \/ AppResponse

SpecKeys == Init /\ [][NextKeys]_vars

\* the history of content.tsx: shapes and texts are committed, undone,
\* redone, erased, edited and cleared
NextHistory ==
    \/ \E key \in {"s", "t", "e", "z", "y", "x"} :
            AppKeyDown("body", key, FALSE, FALSE, TRUE)
    \/ \E x \in Xs : AppMouseUp(x, TRUE)
    \/ \E x \in Xs : AppTextToolDown(x)
    \/ \E x \in Xs, ok \in BOOLEAN : AppEraserDown(x, ok)
    \/ \E i \in 1..MaxHist : AppTextClick(i, TRUE)
    \/ \E text \in {"", "a"} : AppSaveText(text, TRUE)
    \/ AppRender

SpecHistory == Init /\ [][NextHistory]_vars

\* share links in a fragment that has other parameters
NextFragment ==
    \/ Activate(TRUE)
    \/ Deactivate
    \/ Reload
    \/ SelectTool("text", TRUE)
    \/ \E t \in 0..MaxClock : TextDown(Pt(0), t, TRUE)
    \/ Undo(TRUE)
    \/ \E size \in SizeChoices : Share(size)
    \/ \E o \in Fragments : OpenShareLink(o)
    \/ \E h \in BadHashes : OpenBadLink(h)

SpecFragment == Init /\ [][NextFragment]_vars

\* the command engine alone: any command sequence, one executeCommand at a time
NextReplay == \E cmd \in Commands, ok \in WriteOutcomes : Execute(cmd, ok)

SpecReplay == Init /\ [][NextReplay]_vars

\* the command engine with undo and redo, which replay the committed stack
NextUndoReplay ==
    \/ Activate(TRUE)
    \/ \E cmd \in Commands : Execute(cmd, TRUE)
    \/ Undo(TRUE)
    \/ Redo(TRUE)

SpecUndoReplay == Init /\ [][NextUndoReplay]_vars

---------------------------------------------------------------------------
(* Properties *)

\* C1: whenever no drag and no text edit is in progress, replaying the
\* committed stack from empty stores yields exactly the current annotation and
\* text-annotation collections
C1_StoresEqualReplay ==
    (Ready /\ Idle) => Stores = replayCommands(Stores, undoStack)

\* C2: executing a sequence of commands one at a time from empty stores leaves
\* the stores replayCommands builds from the whole sequence
C2_IncrementalEqualsReplay ==
    lastOp.op = "execute" =>
        /\ Len(undoStack) >= 1
        /\ Stores = replayCommands(EmptyStores, undoStack)

\* three commands were executed, the last one a moveAnnotation whose newEnd is
\* undefined and which moved an annotation
C2_Witness ==
    /\ lastOp.op = "execute"
    /\ Len(undoStack) = MaxLog
    /\ lastOp.cmd[1].type = "moveAnnotation"
    /\ lastOp.cmd[1].newEnd = << >>
    /\ ~Has(Last(undoStack), "newEnd")
    /\ \E i \in 1..Len(annotations) : annotations[i].start = Pt(300)

\* C3: undo followed immediately by redo restores the stores that existed
\* before the undo
C3_RedoAfterUndoRestores ==
    [][(lastOp.op = "undo" /\ lastOp.before # << >> /\ lastOp'.op = "redo")
            => Stores' = lastOp.before[1].stores]_vars

\* C4: after any executeCommand the redo stack is empty and the executed
\* command is the last element of the committed stack
C4_ExecuteClearsRedo ==
    lastOp.cmd # << >> =>
        /\ redoStack = << >>
        /\ undoStack # << >>
        /\ Last(undoStack) = JsonClone(lastOp.cmd[1])

\* a second annotation was committed while the first one was undone: the redo
\* stack held the first one when executeCommand ran
C4_Witness ==
    /\ lastOp.op = "up" /\ lastOp.cmd # << >>
    /\ Len(undoStack) = 1
    /\ undoStack[1].annotation.id = 2
    /\ redoStack = << >>

\* C5: undo on a non-empty committed stack removes its last command, pushes it
\* on the redo stack and leaves the stores equal to the replay of the remaining
\* commands; redo moves the most recently undone command back to the end of the
\* committed stack and leaves the stores equal to the replay of the whole stack
C5_UndoRedoSteps ==
    [][/\ (lastOp'.op = "undo" /\ undoStack # << >>) =>
            /\ undoStack' = Front(undoStack)
            /\ redoStack' = Append(redoStack, Last(undoStack))
            /\ Stores' = ReplayFrom(EmptyStores, Front(undoStack))
       /\ (lastOp'.op = "redo" /\ redoStack # << >>) =>
            /\ undoStack' = Append(undoStack, Last(redoStack))
            /\ redoStack' = Front(redoStack)
            /\ Stores' = ReplayFrom(EmptyStores,
                                    Append(undoStack, Last(redoStack)))]_vars

\* a pen stroke and a rectangle were committed, both were undone, and one redo
\* brought the pen stroke back
C5_Witness ==
    /\ lastOp.op = "redo"
    /\ Len(undoStack) = 1 /\ undoStack[1].type = "addPen"
    /\ Len(redoStack) = 1 /\ redoStack[1].type = "addShape"
    /\ Len(annotations) = 1 /\ annotations[1].type = "pen"
    /\ textAnnotations = << >>

\* C6: after the eraser or Clear All executed its command in a state whose
\* stores were the replay of the committed stack, one undo restores the
\* collections that existed before the deletion, in their order
C6_UndoRestoresDeleted ==
    [][(/\ lastOp.op \in {"erase", "clear"}
        /\ lastOp.before # << >>
        /\ lastOp.before[1].consistent
        /\ lastOp'.op = "undo")
            => Stores' = lastOp.before[1].stores]_vars

\* the eraser removed the first of two annotations and undo put it back in
\* front of the other one
C6_Witness ==
    /\ lastOp.op = "undo"
    /\ Len(annotations) = 2
    /\ redoStack # << >>
    /\ Last(redoStack).type = "delete"
    /\ Last(redoStack).targetId = annotations[1].id

SameEngine(e) ==
    /\ Stores' = StoresOf(e)
    /\ undoStack' = e.undoStack
    /\ redoStack' = e.redoStack

\* C8: when the storage write fails during executeCommand, undo or redo, no
\* exception leaves the handler, and the stores and both stacks are what they
\* are when the write succeeds
C8_SaveFailureIsSilent ==
    [][lastOp'.save = "fail" =>
        /\ ~uncaught'
        /\ lastOp'.op \in {"up", "text", "execute"} =>
                SameEngine(executeCommand(Eng, lastOp'.cmd[1], TRUE))
        /\ lastOp'.op = "undo" => SameEngine(undo(Eng, TRUE))
        /\ lastOp'.op = "redo" => SameEngine(redo(Eng, TRUE))]_vars

\* a second command was committed while the write failed: the entry still
\* holds the log without it
C8_Witness ==
    /\ lastOp.op = "up" /\ lastOp.save = "fail"
    /\ Len(undoStack) = 2 /\ Len(annotations) = 2
    /\ stored.kind = "session" /\ Len(stored.actions) = 1
    /\ ~uncaught

\* an entry that is no session: no JSON text, null, or actions holding null
IsCorrupt(entry) ==
    \/ LoadThrows(entry)
    \/ entry.kind = "session" /\ FirstThrowing(entry.actions) # 0

\* C9: activation with a stored entry throws nothing; an entry of another
\* address leaves the command log and the stores as they were; a corrupt entry
\* is removed and leaves them as they were
C9_LoadNeverCrashes ==
    [][lastOp'.op = "activate" =>
        /\ ~uncaught'
        /\ (stored.kind = "session"
                /\ StripHashQuery(stored.pageUrl) # PageUrl) =>
                /\ undoStack' = undoStack /\ Stores' = Stores
        /\ IsCorrupt(stored) =>
                /\ stored' = NoEntry
                /\ undoStack' = undoStack /\ Stores' = Stores]_vars

\* C10: a link generated with status safe or warning carries the committed
\* stack; opened on the same page it makes the committed stack equal to that
\* log and the stores equal to its replay
C10_ShareRoundTrip ==
    [][/\ (lastOp'.op = "share" /\ share'.status \in {"safe", "warning"}) =>
            /\ share'.url # << >>
            /\ share'.url[1].actions = undoStack
            /\ share'.url[1].pageUrl = PageUrl
       /\ (lastOp'.op = "open") =>
            /\ hash'.kind = "payload"
            /\ hash'.session = share.url[1]
       /\ (lastOp'.op = "restore") =>
            /\ hash.kind = "payload"
            /\ undoStack' = hash.session.actions
            /\ Stores' = ReplayFrom(EmptyStores, hash.session.actions)]_vars

\* a link carrying two commands was restored by a new content script
C10_Witness ==
    /\ lastOp.op = "restore"
    /\ Len(undoStack) = 2
    /\ Len(textAnnotations) = 2
    /\ hash = NoHash

\* C11: generateShareUrl returns blocked and no URL exactly when the compressed
\* length exceeds HARD_LIMIT, warning with a URL when it exceeds SAFE_LIMIT
\* only, safe with a URL otherwise; a URL is returned iff the status is not
\* blocked
C11_SizeGate ==
    lastOp.op = "share" =>
        /\ share.status \in {"safe", "warning", "blocked"}
        /\ share.status = "blocked" <=> share.size > HARD_LIMIT
        /\ share.status = "warning" <=>
                (share.size > SAFE_LIMIT /\ share.size <= HARD_LIMIT)
        /\ share.status = "safe" <=> share.size <= SAFE_LIMIT
        /\ share.url # << >> <=> share.status # "blocked"
        /\ share.url # << >> => share.url[1] = SharePayload(Eng)

\* a log of two commands compressed to exactly HARD_LIMIT characters was
\* shared with a warning
C11_Witness ==
    /\ lastOp.op = "share"
    /\ share.size = HARD_LIMIT /\ share.status = "warning"
    /\ share.url # << >>
    /\ Len(undoStack) = 2

\* C12: a share fragment that is rejected (wrong version, other page, not
\* decompressed, not parsed, or holding a command that cannot be applied)
\* leaves the tool state, both stores and the committed stack as they were
C12_RejectedRestoreChangesNothing ==
    [][(lastOp'.op = "activate" /\ hash.kind # "none") =>
        LET r == restoreFromUrl(Eng, hash, TRUE)
        IN  /\ ~r.restored
            /\ r.e.toolState = toolState
            /\ StoresOf(r.e) = Stores
            /\ r.e.undoStack = undoStack
            /\ stored.kind = "none" =>
                    /\ toolState' = toolState
                    /\ Stores' = Stores
                    /\ undoStack' = undoStack]_vars

\* the parameters of a fragment that are not empty, in their order
KeptParams(o) == SelectSeq(o.before \o o.after, LAMBDA q : q # "")

\* C13: a restore from a share link removes the share parameter from the
\* fragment and keeps the other parameters in their order, and while the
\* fragment has no share parameter no activation restores from a link, whether
\* the page was reloaded in between or not
C13_RestoreStripsLink ==
    [][/\ lastOp'.op = "restore" =>
            /\ hash.kind = "payload"
            /\ hash' = NoHash
            /\ KeptParams(fragment') = KeptParams(fragment)
       /\ hash = NoHash => lastOp'.op # "restore"]_vars

\* the link was opened in a fragment with another parameter in front of it,
\* restored, the page was reloaded and annotation mode activated again: the
\* second activation read the stored session and the other parameter is there
C13_Witness ==
    /\ lastOp.op = "activate"
    /\ isActive
    /\ hash = NoHash
    /\ fragment = [before |-> << >>, after |-> <<OtherParam, "">>]
    /\ undoStack # << >>

\* the add commands of the pen and the highlighter in a sequence of commands
StrokeCmds(commands) ==
    {commands[i] : i \in {j \in 1..Len(commands) :
                            commands[j].type \in {"addPen", "addHighlighter"}}}

\* C14: a mouse-up or mouse-leave that ends a pen or highlighter interaction
\* with one recorded point executes no command and leaves the committed stack,
\* the redo stack and the stores as they were; every pen or highlighter path
\* of the committed stack, the redo stack and the stores has two points or more
C14_ShortStrokeDiscarded ==
    /\ [][(/\ lastOp'.op = "up"
           /\ isDrawing /\ IsPathTool(toolState.activeTool)
           /\ Len(currentPath) = 1)
              => /\ lastOp'.cmd = << >>
                 /\ undoStack' = undoStack
                 /\ redoStack' = redoStack
                 /\ Stores' = Stores
                 /\ stored' = stored
                 /\ ~isDrawing' /\ currentPath' = << >>]_vars
    /\ [](/\ \A c \in StrokeCmds(undoStack) \cup StrokeCmds(redoStack) :
                Len(c.annotation.path) >= 2
          /\ \A i \in 1..Len(annotations) :
                annotations[i].type \in {"pen", "highlighter"}
                    => Len(annotations[i].path) >= 2)

\* a highlighter stroke was committed and undone, then a click without a drag
\* ended with one point: the redo stack still holds the stroke
C14_Witness ==
    /\ lastOp.op = "up" /\ lastOp.cmd = << >>
    /\ toolState.activeTool = "highlighter"
    /\ undoStack = << >>
    /\ Len(redoStack) = 1 /\ redoStack[1].type = "addHighlighter"
    /\ Len(redoStack[1].annotation.path) = 2
    /\ ~isDrawing

\* a full-page capture of the content script captured its tiles and drew
\* them
Completed ==
    /\ cap.pc \in {"done", "reported"}
    /\ cap.impl \in {"modal", "internal", "tsx"}
    /\ cap.image # << >>

Tiles ==
    IF cap.pc # "idle" /\ cap.impl \in {"modal", "internal", "tsx"}
    THEN cap.slices ELSE << >>

\* the capture has not hidden element e in the tile: its inline visibility
\* is not "hidden", or was "hidden" when the capture was requested
ShownIn(tile, e) ==
    tile.vis[e] # "hidden" \/ cap.requested.vis[e] = "hidden"

Requested == cap.requested

\* C17: when a full-page capture has captured and drawn all its tiles, every
\* element has the inline visibility it had when the capture was requested
\* and the window is at the scroll position it had then
C17_RestoredAfterCapture ==
    Completed =>
        /\ \A e \in Elements : page.vis[e] = Requested.vis[e]
        /\ page.scroll = Requested.scroll

\* the ways a full-page capture of the background script ends
Outcomes == {"fullpage", "pdf", "viewport", "error"}

\* the capture started from the page is over: something was downloaded or
\* the failure was shown
ModalEnded ==
    /\ cap.pc = "done"
    /\ cap.impl \in {"modal", "viewport"}
    /\ cap.downloads # << >> \/ cap.alerted

\* C18: when the 60 s timer fires on a full-page capture that is still
\* pending, the capture is settled by a single-viewport capture (or by the
\* error of that capture); every pending full-page capture of the background
\* script is eventually settled with a full-page result, a viewport fallback
\* or an error; no capture waits forever for the answer to captureVisibleTab;
\* every full-page capture started from the page eventually ends with a
\* download or a shown failure
C18_CaptureEnds ==
    /\ [][(bridge.timer = "armed" /\ bridge'.timer = "fired"
              /\ bridge.promise = "pending")
            => /\ bridge'.outcome \in {"viewport", "error"}
               /\ bridge'.promise # "pending"
               /\ "tabCapture" \in bridge'.did
               /\ bridge'.outcome = "error" <=> bridge'.denied
               /\ bridge'.answer # << >>]_vars
    /\ [](bridge.promise = "pending" => bridge.timer = "armed")
    /\ (bridge.promise = "pending")
           ~> (bridge.promise # "pending" /\ bridge.outcome \in Outcomes
               /\ bridge.answer # << >>)
    /\ (cap.pc = "await") ~> (cap.pc # "await")
    /\ (cap.pc # "idle" /\ cap.impl = "modal") ~> ModalEnded

\* the timer fired while the content script was still waiting for a tile, and
\* the capture was settled by the viewport fallback
C18_Witness ==
    /\ bridge.timer = "fired"
    /\ bridge.outcome = "viewport"
    /\ bridge.promise = "resolved"
    /\ bridge.reported = << >>
    /\ cap.pc = "await"
    /\ cap.impl = "internal"

\* the object the background script passed to sendResponse reports an error
AnsweredError(action, answer) ==
    /\ Has(answer, "error")
    /\ action # "captureVisibleTab" =>
           (Has(answer, "success") /\ ~answer.success)

\* C19: a message whose sender has no tab id is answered with an error
\* (success = false too for captureScreenshot, downloadScreenshot and
\* downloadFullPage) and its handler starts no tab capture, no message to
\* the content script, no download and no content-script capture; a handler
\* whose tab capture is denied answers with an error and neither stores nor
\* downloads anything; a content script's captureVisibleTab request is
\* answered with an image or with an error, never with both or neither
C19_NoTabOrDeniedFails ==
    /\ (bridge.pc = "answered" /\ ~bridge.hasTab) =>
           /\ bridge.did = {}
           /\ Len(bridge.answer) = 1
           /\ AnsweredError(bridge.action, bridge.answer[1])
           /\ cap.pc = "idle"
    /\ bridge.denied =>
           /\ bridge.hasTab
           /\ Len(bridge.answer) = 1
           /\ AnsweredError(bridge.action, bridge.answer[1])
           /\ bridge.did \cap {"storage", "download"} = {}
           /\ bridge.outcome \in {"none", "error"}
    /\ (cap.pc = "answered") =>
           /\ Len(cap.response) = 1
           /\ Has(cap.response[1], "error") # Has(cap.response[1], "dataUrl")

\* downloadFullPage from a sender without a tab was answered with the error
C19_Witness ==
    /\ bridge.pc = "answered"
    /\ bridge.action = "downloadFullPage"
    /\ ~bridge.hasTab
    /\ bridge.answer = <<[success |-> FALSE, error |-> "No tab ID available"]>>
    /\ bridge.did = {}

\* the content script's full-page capture is over and its PDF generation
\* threw
PdfFailed == cap.pc \in {"reported", "done"} /\ cap.pdfFailed

\* C20: when the PDF generation of a full-page export has failed, nothing is
\* downloaded in place of the PDF, and a requester that was told of the
\* failure is not answered with success or with another image
C20_PdfFailureSurfaced ==
    PdfFailed =>
        /\ cap.downloads = << >>
        /\ (bridge.reported # << >> /\ bridge.reported = cap.result) =>
               /\ bridge.outcome = "error"
               /\ bridge.answer # << >>
               /\ ~bridge.answer[1].success

\* the text annotations without the one at index i
WithoutText(texts, i) ==
    [k \in 1..(Len(texts) - 1) |-> IF k < i THEN texts[k] ELSE texts[k + 1]]

\* C21: when the input of a text annotation loses the focus with a text
\* that differs from the last committed value and is not empty after
\* trimming, exactly one editText command (old text, new text) is executed;
\* when the text is empty after trimming, exactly one command, a deleteText of
\* that annotation, is executed and exactly that annotation leaves the store
C21_BlurCommitsEditOrDelete ==
    [][(lastOp'.op = "blur" /\ editing.idx # 0 /\ ~uncaught')
        => LET text == textAnnotations[editing.idx]
               last == editing.lastTextValue
           IN  /\ (Trim(text.text) # "" /\ text.text # last) =>
                      /\ Len(undoStack') = Len(undoStack) + 1
                      /\ Last(undoStack').type = "editText"
                      /\ Last(undoStack').id = text.id
                      /\ Last(undoStack').oldText = last
                      /\ Last(undoStack').newText = text.text
                      /\ Len(textAnnotations') = Len(textAnnotations)
               /\ Trim(text.text) = "" =>
                      /\ Len(undoStack') = Len(undoStack) + 1
                      /\ Last(undoStack').type = "deleteText"
                      /\ Last(undoStack').annotation.id = text.id
                      /\ textAnnotations' =
                             WithoutText(textAnnotations, editing.idx)]_vars

\* C22: undo with an empty committed stack and redo with an empty redo stack
\* change neither stack nor the annotation and text-annotation stores, and
\* save nothing
C22_EmptyUndoRedoNoOp ==
    [][((lastOp'.op = "undo" /\ undoStack = << >>)
          \/ (lastOp'.op = "redo" /\ redoStack = << >>))
        => /\ undoStack' = undoStack
           /\ redoStack' = redoStack
           /\ Stores' = Stores
           /\ stored' = stored
           /\ lastOp'.save = "none"]_vars

\* Redo was clicked with nothing to redo while an annotation was on the page
C22_Witness ==
    /\ lastOp.op = "redo"
    /\ lastOp.save = "none"
    /\ redoStack = << >>
    /\ Len(undoStack) = 1
    /\ Len(annotations) = 1

\* what the keyboard shortcuts can change
AppState(a) == [a EXCEPT !.tick = 0]

\* C23: a keydown event whose target is an input, a textarea or a
\* content-editable element changes neither the active tool, the drawing
\* history, the history index nor what is saved, and sends no capture request;
\* on another target the Z key with Ctrl or Cmd and without Shift does what
\* handleUndo does, and the Y key, or the Z key with Shift, with Ctrl or Cmd
\* does what handleRedo does
C23_KeyboardShortcuts ==
    [][\A target \in KeyTargets, key \in Keys, mod, shiftKey, ok \in BOOLEAN :
          AppKeyDown(target, key, mod, shiftKey, ok) =>
              /\ target \in TextTargets => AppState(app') = AppState(app)
              /\ (target \notin TextTargets /\ mod /\ toLowerCase(key) = "z"
                     /\ ~shiftKey)
                    => AppState(app') = AppState(handleUndo(app, ok))
              /\ (target \notin TextTargets /\ mod
                     /\ (toLowerCase(key) = "y"
                            \/ (toLowerCase(key) = "z" /\ shiftKey)))
                    => AppState(app') = AppState(handleRedo(app, ok))]_vars

\* C24: once the promise of captureFullPage(tabId) is settled, by a
\* fullPageCaptureResult message or by a fallback, no later step of the
\* background script makes a tab capture for that request
C24_NoCaptureAfterCompletion ==
    [][(bridge.promise \in {"resolved", "rejected"}
          /\ bridge'.promise = bridge.promise)
         => ("tabCapture" \in bridge'.did => "tabCapture" \in bridge.did)]_vars

\* C25: the promise of captureFullPage(tabId) of a tab is resolved only with
\* an image of that tab
C25_ResultCompletesOwnRequest ==
    \A t \in Tabs :
        requests[t].result # << >> => requests[t].result[1].dataUrl.tab = t

\* a full-page capture has ended because the capture of a tile failed: the
\* listener has reported the error, the modal's fallback viewport capture is
\* over
TileFailed ==
    \/ /\ cap.pc \in {"reported", "done"} /\ cap.impl \in {"internal", "tsx"}
       /\ cap.result # << >> /\ Has(cap.result[1], "error")
       /\ ~cap.pdfFailed
    \/ cap.pc = "done" /\ cap.impl = "viewport" /\ cap.alerted

\* C27: when a full-page capture has ended because the capture of a tile
\* failed, the inline visibility of every element, the display of the overlay
\* and of the canvas, the background and the scrollbar styles of the document
\* and the scroll position are what they were before the capture
C27_RestoredAfterTileFailure ==
    TileFailed =>
        /\ page.vis = cap.requested.vis
        /\ page.scroll = cap.requested.scroll
        /\ Styles(page) = cap.before

\* the display of the overlay and of the canvas and the document background
Detachable(st) ==
    [overlayDisplay |-> st.overlayDisplay, canvasDisplay |-> st.canvasDisplay,
     background |-> st.background]

\* a full-page capture of part_001 waits for the capture of a tile
AwaitsTile == cap.pc = "await" /\ cap.impl \in {"modal", "internal"}

\* a full-page capture of part_001 has stitched its tiles
Stitched ==
    \/ cap.pc = "done" /\ cap.impl = "modal"
    \/ /\ cap.pc \in {"reported", "done"} /\ cap.impl = "internal"
       /\ cap.result # << >> /\ Has(cap.result[1], "screenshotData")

\* C28: while the first tile of a full-page capture is captured the overlay
\* and the canvas have display none and the document background is white;
\* while any other tile is captured, and when the capture has completed, the
\* three styles are what they were before the capture
C28_DetachedOnlyForFirstTile ==
    /\ (AwaitsTile /\ isFirstSlice(cap.x, cap.y)) =>
           Detachable(page) = [overlayDisplay |-> "none",
                               canvasDisplay |-> "none",
                               background |-> "#ffffff"]
    /\ ((AwaitsTile /\ ~isFirstSlice(cap.x, cap.y)) \/ Stitched) =>
           Detachable(page) = Detachable(cap.before)

\* the tile a capture has got shows the window at the scroll position, and
\* the elements with the visibilities, that the capture set for it
OwnTile(c) ==
    (c.pc = "answered" /\ c.impl \in {"modal", "internal"}
        /\ Has(c.response[1], "dataUrl"))
    => /\ c.response[1].dataUrl.scroll = c.tileState[1].scroll
       /\ c.response[1].dataUrl.vis = c.tileState[1].vis

\* C26: when a second full-page capture is started in a tab while one runs,
\* every tile of both is taken at the scroll position and with the element
\* visibilities its capture set for that tile
C26_CapturesDoNotInterleave == OwnTile(cap) /\ OwnTile(cap2)

\* C29: a full-page capture of part_001 takes its tiles row by row, every
\* column of a row from left to right, none twice, and tile (x, y) with the
\* window scrolled to (min(x*w, W-w), min(y*h, H-h))
C29_RowMajorClampedTiles ==
    (cap.pc # "idle" /\ cap.impl \in {"modal", "internal"}) =>
        /\ Len(cap.slices) <= cap.slicesX * cap.slicesY
        /\ \A i \in 1..Len(cap.slices) :
               LET x == (i - 1) % cap.slicesX
                   y == (i - 1) \div cap.slicesX
               IN  /\ cap.slices[i].x = x /\ cap.slices[i].y = y
                   /\ cap.slices[i].scroll =
                          Point(Min2(x * cap.viewportWidth,
                                     cap.pageWidth - cap.viewportWidth),
                                Min2(y * cap.viewportHeight,
                                     cap.pageHeight - cap.viewportHeight))

\* every tile of a page of two columns and two rows, neither a whole number
\* of viewports, is captured
C29_Witness ==
    /\ cap.pc = "captured" /\ cap.impl \in {"modal", "internal"}
    /\ cap.slicesX = 2 /\ cap.slicesY = 2 /\ Len(cap.slices) = 4
    /\ cap.pageWidth = 3 /\ cap.pageHeight = 3
    /\ cap.slices[4].scroll = Point(1, 1)

\* C30: in the image of a completed full-page capture every tile is drawn
\* into the rectangle of the page that the window showed when the tile was
\* captured: it starts at the scroll position of the tile and is as wide and
\* as high as the viewport
C30_TilesDrawnWhereCaptured ==
    Completed =>
        \A i \in 1..Len(cap.image) :
            /\ cap.image[i].destX = cap.slices[i].scroll.x
            /\ cap.image[i].destY = cap.slices[i].scroll.y
            /\ cap.image[i].width = cap.viewportWidth
            /\ cap.image[i].height = cap.viewportHeight

\* C31: when activate() has replaced the committed stack, by the actions of
\* a share link or by the actions of the stored session, the redo stack is
\* empty
C31_RedoEmptyAfterLoad ==
    [][(\/ lastOp'.op = "restore"
        \/ /\ lastOp'.op = "activate"
           /\ loadSession(stored).actions # << >>)
         => redoStack' = << >>]_vars

\* C32: a pointer-down of the eraser or the move tool selects the last text
\* whose rectangle holds the position; when no text does, the last annotation
\* of the whole store whose hit region holds it; and nothing only when no
\* hit region holds it
C32_LastDrawnFirst ==
    pointerDown.tool # "none" =>
        LET d == pointerDown
            ht == {i \in 1..Len(d.texts) : InTextRect(d.texts[i], d.p)}
            ha == {i \in 1..Len(d.anns) : InBox(d.anns[i], d.p)}
            r == d.result
        IN  /\ r.kind = "none" <=> (ht = {} /\ ha = {})
            /\ r.kind = "text" <=> ht # {}
            /\ r.kind = "text" => r.i \in ht /\ \A j \in ht : j <= r.i
            /\ r.kind = "annotation" =>
                   r.i \in ha /\ \A j \in ha : j <= r.i

\* C33: when undo() or redo() has replayed the committed stack, the stores
\* are those built from empty stores by the commands of the stack without the
\* editText, moveText, delete and moveAnnotation commands whose target is
\* absent at their turn: such a command changes neither store, the commands
\* after it are applied, and no exception leaves the replay
C33_ReplaySkipsAbsentTargets ==
    [][(lastOp'.op \in {"undo", "redo"} /\ lastOp'.save # "none")
        => /\ Stores' = ReplayFrom(EmptyStores,
                                   WithoutAbsent(EmptyStores, undoStack'))
           /\ uncaught' = uncaught]_vars

\* undo() has replayed a stack whose first command moves an annotation of an
\* empty store and whose second command adds the text the store now holds
C33_Witness ==
    /\ lastOp.op = "undo"
    /\ Len(undoStack) = 2
    /\ undoStack[1].type = "moveAnnotation"
    /\ undoStack[2].type = "addText"
    /\ Len(textAnnotations) = 1 /\ annotations = << >>

\* the address without its query string and fragment: what precedes the
\* first "?" or "#"
RECURSIVE Normalized(_)
Normalized(href) ==
    IF href = << >> \/ Head(href) \in {"?", "#"} THEN << >>
    ELSE <<Head(href)>> \o Normalized(Tail(href))

\* the saves of engine that reached the storage from an address with the
\* normalized form of href
SavesFor(engine, href) ==
    {i \in 1..Len(localStorage.writes) :
        /\ localStorage.writes[i].ok
        /\ localStorage.writes[i].engine = engine
        /\ Normalized(localStorage.writes[i].href) = Normalized(href)}

\* C34: a load returns what the last save of the same engine stored from an
\* address with the same normalized form, whatever the query strings and
\* fragments of the two addresses, and nothing when there was no such save:
\* addresses with one normalized form share an entry, addresses with
\* different normalized forms do not
C34_KeyedByNormalizedUrl ==
    localStorage.read # << >> =>
        LET r == localStorage.read[1]
            W == SavesFor(r.engine, r.href)
        IN  r.data = IF W = {} THEN << >>
                     ELSE <<localStorage.writes[MaxOf(W)].data>>

\* C35: no two annotations of the store have the same id and no two text
\* annotations have the same id, whatever the clock read at their creation
C35_IdsUnique ==
    /\ \A i, j \in 1..Len(annotations) :
          annotations[i].id = annotations[j].id => i = j
    /\ \A i, j \in 1..Len(textAnnotations) :
          textAnnotations[i].id = textAnnotations[j].id => i = j

\* captureViewport() has sent its request
ViewportRequested == cap.pc = "await" /\ cap.impl = "viewport"

\* captureViewport()'s callback has run and the extension's elements have the
\* visibility they had when captureViewport() was called
ViewportRestored ==
    /\ cap.pc = "done" /\ cap.impl = "viewport"
    /\ \A e \in AnnotedUI : page.vis[e] = cap.uiBefore[e]

\* C36: once captureViewport() has sent its request, its callback eventually
\* has run and the extension's elements have the visibility they had before,
\* whether the answer holds an image, an error field or there is no answer;
\* and the callback offers a download only for an answer that holds an image
C36_ViewportRestoresUi ==
    /\ ViewportRequested ~> ViewportRestored
    /\ [][(cap.pc = "answered" /\ cap.impl = "viewport" /\ cap'.pc = "done")
            => (cap'.downloads # << >> <=> Has(cap.response[1], "dataUrl"))]_vars

\* a viewport capture from the toolbar whose request got no answer is over:
\* the toolbar is shown again and nothing was offered for download
C36_Witness ==
    /\ cap.pc = "done" /\ cap.impl = "viewport" /\ ~cap.alerted
    /\ cap.downloads = << >>
    /\ cap.hiddenAnnotedUI # {}
    /\ \A e \in AnnotedUI : page.vis[e] = "" /\ cap.uiBefore[e] = ""

BridgeActions ==
    {"captureScreenshot", "downloadScreenshot", "downloadFullPage",
     "captureVisibleTab"}

\* C37: the background script never calls sendResponse twice for a message;
\* a handler that is over has called it once; a downloadFullPage whose
\* capture is pending is eventually answered, once, by the result, the
\* error, the failed send or the timer; and a content script that waits for
\* captureVisibleTab gets one answer unless its tab is gone
C37_AnsweredExactlyOnce ==
    /\ [](bridge.answers <= 1)
    /\ [](bridge.pc = "answered" =>
            /\ bridge.action \in BridgeActions
            /\ bridge.answers = 1 /\ Len(bridge.answer) = 1)
    /\ [][bridge.pc = "idle" /\ bridge'.pc # "idle"
            => bridge'.pc = "answered" \/ bridge'.promise = "pending"]_vars
    /\ (bridge.promise = "pending") ~> (bridge.answers = 1)
    /\ [](bridge.promise \in {"resolved", "rejected"} => bridge.answers = 1)
    /\ [][cap.pc = "await" /\ cap'.pc = "answered"
            => Len(cap'.response) = 1]_vars
    /\ (cap.pc = "await") ~> (cap.pc \in {"answered", "idle"})

\* the timer has fired after the result of the content script had settled
\* the capture: downloadFullPage was answered once
C37_Witness ==
    /\ bridge.action = "downloadFullPage"
    /\ bridge.timer = "fired"
    /\ bridge.reported # << >>
    /\ bridge.promise = "resolved"
    /\ bridge.answers = 1

\* C38: historyIndex is null or at least 0 and less than the length of
\* drawingHistory, and canRedo is true exactly when historyIndex is not null
C38_HistoryIndexInRange ==
    /\ app.historyIndex # << >> =>
           /\ app.historyIndex[1] >= 0
           /\ app.historyIndex[1] < Len(app.drawingHistory)
    /\ canRedo(app) <=> app.historyIndex # << >>

\* the items drawn and the items undo has hidden
Shown(a) == SubSeq(a.drawingHistory, 1, visibleCount(a))
Hidden(a) == SubSeq(a.drawingHistory, visibleCount(a) + 1, Len(a.drawingHistory))

\* the item at i is removed from what is shown and what is hidden stays
RemovesOnly(i) ==
    /\ Shown(app') = Splice1(Shown(app), i)
    /\ Hidden(app') = Hidden(app)

\* C39: the eraser on a shown shape, the eraser on the element of a shown
\* text and the Save button with a blank text on a shown text that is being
\* edited remove that item from the shown items, leave the other shown items
\* shown and the hidden items hidden
C39_DeletionKeepsVisibility ==
    [][/\ \A x \in Xs, ok \in BOOLEAN :
            (AppEraserDown(x, ok) /\ findAnnotationAtPoint(app, Pt(x)) # 0)
                => RemovesOnly(findAnnotationAtPoint(app, Pt(x)))
       /\ \A i \in 1..MaxHist, ok \in BOOLEAN :
            (AppTextClick(i, ok) /\ app.activeTool = "eraser"
                /\ i <= visibleCount(app))
                => RemovesOnly(i)
       /\ \A ok \in BOOLEAN :
            (AppSaveText("", ok) /\ app.textInput[1].editingIndex # << >>
                /\ app.textInput[1].editingIndex[1] <= visibleCount(app))
                => RemovesOnly(app.textInput[1].editingIndex[1])]_vars

=============================================================================
